---- MODULE Spec2Model ----
(***************************************************************************)
(* ColiVara: document ingestion (upsert / PATCH -> embed_document) and the *)
(* relational store it writes (Collection, Document, Page, PageEmbedding). *)
(* Modelled from src/web/api/models.py and src/web/api/views.py; the older *)
(* embed_document of src/api/models.py is modelled by the Legacy* actions. *)
(***************************************************************************)
EXTENDS Integers, Sequences, FiniteSets, TLC

VARIABLES
    collections,   \* rows of Collection: [id, owner, name]
    documents,     \* rows of Document: [id, collection, name, url, s3_file]
    pages,         \* rows of Page: [id, document, page_number, img]
    embeddings,    \* rows of PageEmbedding: [page, k, dim]
    nextId,        \* the store's id sequences: [coll, doc, page]
    task,          \* task id -> the coroutine's locals and position
    nreq           \* number of API requests accepted so far

vars == <<collections, documents, pages, embeddings, nextId, task, nreq>>

----------------------------------------------------------------------------
(* Bounds of the model *)

\* pages of the longest document of the catalogue (more than one batch)
MaxPages == 4
\* largest component of a stored vector, and most vectors of one page, in the
\* stores the scoring is checked on
MaxCoord == 1
MaxVecs == 2
\* API requests accepted in one run
MaxRequests == 2

(* Program constants *)
EMBEDDINGS_BATCH_SIZE == 3
MAX_ATTEMPTS == 3
EMBEDDING_DIM == 128
\* 50 * 1024 * 1024 bytes; the model measures payloads in MiB
MAX_SIZE_MIB == 50
LEGACY_BATCH_SIZE == 5

----------------------------------------------------------------------------
(* The inputs: owners, names and a catalogue of document sources *)

Owners == {"U"}
CollNames == {"C"}
DocNames == {"X"}

URLs == {"u_pdf", "u_html", "u_big", "u_stream"}
Blobs == {"b_png", "b_pdf", "b_bin", "b_big"}
\* every source of the catalogue that is fetched from a URL
FetchedSources == URLs \cup {"u_png", "u_png_pdf"}

\* What a GET of the URL answers (status, Content-Type, Content-Length with 0
\* for an absent header, the body's size), what libmagic sniffs in a decoded
\* base64 payload (mime), and what the converters and pdf2image make of it.
Source(s) ==
    CASE s = "u_pdf"    -> [status |-> 200, ctype |-> "application/pdf", clen |-> 1,
                            size |-> 1, mime |-> "application/pdf", conv |-> 200,
                            raster |-> TRUE,
                            npages |-> MaxPages]
      [] s = "u_html"   -> [status |-> 200, ctype |-> "text/html", clen |-> 0,
                            size |-> 1, mime |-> "text/html", conv |-> 200,
                            raster |-> TRUE,
                            npages |-> 1]
      [] s = "u_big"    -> [status |-> 200, ctype |-> "application/pdf", clen |-> 51,
                            size |-> 51, mime |-> "application/pdf", conv |-> 200,
                            raster |-> TRUE,
                            npages |-> 1]
      [] s = "u_stream" -> [status |-> 200, ctype |-> "application/pdf", clen |-> 0,
                            size |-> 51, mime |-> "application/pdf", conv |-> 200,
                            raster |-> TRUE,
                            npages |-> 1]
      [] s = "b_png"    -> [status |-> 0, ctype |-> "", clen |-> 0,
                            size |-> 1, mime |-> "image/png", conv |-> 200,
                            raster |-> TRUE, npages |-> 1]
      [] s = "b_pdf"    -> [status |-> 0, ctype |-> "", clen |-> 0,
                            size |-> 1, mime |-> "application/pdf", conv |-> 200,
                            raster |-> TRUE, npages |-> 2]
      [] s = "b_bin"    -> [status |-> 0, ctype |-> "", clen |-> 0,
                            size |-> 1, mime |-> "application/octet-stream",
                            conv |-> 200, raster |-> TRUE, npages |-> 1]
      [] s = "b_big"    -> [status |-> 0, ctype |-> "", clen |-> 0,
                            size |-> 51, mime |-> "application/pdf", conv |-> 200,
                            raster |-> TRUE, npages |-> 1]
      [] s = "b_long"   -> [status |-> 0, ctype |-> "", clen |-> 0,
                            size |-> 1, mime |-> "application/pdf", conv |-> 200,
                            raster |-> TRUE, npages |-> LEGACY_BATCH_SIZE + 1]
      \* one PNG image behind two URLs, served as image/png and as
      \* application/pdf; pdf2image raises on its bytes
      [] s = "u_png"    -> [status |-> 200, ctype |-> "image/png", clen |-> 1,
                            size |-> 1, mime |-> "image/png", conv |-> 200,
                            raster |-> FALSE, npages |-> 1]
      [] s = "u_png_pdf" -> [status |-> 200, ctype |-> "application/pdf",
                            clen |-> 1, size |-> 1, mime |-> "image/png",
                            conv |-> 200, raster |-> FALSE, npages |-> 1]
      \* a PDF without pages: convert_from_bytes returns the empty list
      [] s = "b_blank"  -> [status |-> 0, ctype |-> "", clen |-> 0,
                            size |-> 1, mime |-> "application/pdf", conv |-> 200,
                            raster |-> TRUE, npages |-> 0]

----------------------------------------------------------------------------
(* Document normalisation: Document._prep_document and its helpers *)

IMAGE_EXTENSIONS == {"png", "jpg", "jpeg", "tiff", "bmp", "gif"}

ALLOWED_EXTENSIONS ==
    {"csv", "doc", "docx", "htm", "html", "pdf", "ppt", "pptx", "txt", "xls",
     "xlsx"} \cup IMAGE_EXTENSIONS

\* get_extension_from_mime, without the leading dot
ExtensionFromMime(mime) ==
    CASE mime = "application/pdf" -> "pdf"
      [] mime = "image/png" -> "png"
      [] mime = "image/jpeg" -> "jpg"
      [] mime = "application/msword" -> "doc"
      [] mime = "text/html" -> "html"
      [] OTHER -> "bin"

PrepFail(err) == [ok |-> FALSE, err |-> err, images |-> <<>>]

\* Step 3 and 4: rasterise the PDF, one base64 image per page; img k of source s
Rasterize(s) ==
    IF ~Source(s).raster
    THEN PrepFail("raster")
    ELSE [ok |-> TRUE, err |-> "",
          images |-> [k \in 1..Source(s).npages |-> [src |-> s, k |-> k]]]

\* mutant: the size limit is not enforced
SizeExceeded_Off(size) == FALSE

SizeExceeded(size) == size > MAX_SIZE_MIB

ExtensionAllowed(extension) == extension \in ALLOWED_EXTENSIONS

\* lines 544-588: size check, allow-list, then the branch by kind
PrepConvert(s, size, extension) ==
    IF SizeExceeded(size) THEN PrepFail("size")
    ELSE IF ~ExtensionAllowed(extension) THEN PrepFail("extension")
    ELSE IF extension \in IMAGE_EXTENSIONS
    THEN [ok |-> TRUE, err |-> "", images |-> <<[src |-> s, k |-> 1]>>]
    ELSE IF extension = "pdf" THEN Rasterize(s)
    ELSE IF Source(s).conv # 200 THEN PrepFail("convert")
    ELSE Rasterize(s)

\* the extension of a fetched URL: "pdf" for a webpage (converted, then named
\* <filename>.pdf) and for application/pdf, else from the Content-Type header
UrlExtension(u) ==
    IF Source(u).ctype = "text/html" THEN "pdf"
    ELSE IF Source(u).ctype = "application/pdf" THEN "pdf"
    ELSE ExtensionFromMime(Source(u).ctype)

\* the stored blob's file name carries the extension save_base64_to_s3 derived
\* from the sniffed mime type
BlobExtension(b) == ExtensionFromMime(Source(b).mime)

\* _fetch_document followed by the URL branch of _prep_document
PrepUrl(u) ==
    LET r == Source(u) IN
    IF r.status # 200 THEN PrepFail("fetch")
    ELSE IF r.clen # 0 /\ SizeExceeded(r.clen) THEN PrepFail("size")
    ELSE IF r.ctype = "text/html"
    THEN IF r.conv # 200 THEN PrepFail("convert")
         ELSE PrepConvert(u, 1, UrlExtension(u))
    ELSE PrepConvert(u, r.size, UrlExtension(u))

\* the S3 branch of _prep_document
PrepBlob(b) == PrepConvert(b, Source(b).size, BlobExtension(b))

\* the source _prep_document reads: the stored blob first, then the URL
ResolvedSource(d) == IF d.s3_file # "" THEN d.s3_file ELSE d.url

\* _prep_document(document_data=None): the stored blob first, then the URL
PrepDocument(d) ==
    IF d.s3_file # "" THEN PrepBlob(d.s3_file)
    ELSE IF d.url # "" THEN PrepUrl(d.url)
    ELSE PrepFail("missing")

----------------------------------------------------------------------------
(* The embedding service's answers *)

\* one embedding object of output.data: whether "embedding" is a list, the
\* length of each of its vectors (-1: the member is not a list), and "index",
\* the position in the request's input_data (handler.py, encode_image)
EmbeddingObj(isList, v, index) == [list |-> isList, v |-> v, index |-> index]

GoodShape == <<EMBEDDING_DIM, EMBEDDING_DIM>>

BadShapes ==
    { [list |-> TRUE, v |-> <<EMBEDDING_DIM, EMBEDDING_DIM - 1>>],
      [list |-> TRUE, v |-> <<EMBEDDING_DIM - 1, EMBEDDING_DIM>>],
      [list |-> TRUE, v |-> <<EMBEDDING_DIM, -1>>],
      [list |-> TRUE, v |-> <<>>],
      [list |-> FALSE, v |-> <<>>] }

\* output.data for a request of n images: one object per image, in order; the
\* inputs considered are the well-formed answer and those with one bad member
Responses(n) ==
    { [k \in 1..n |-> EmbeddingObj(TRUE, GoodShape, k - 1)] }
    \cup
    { [k \in 1..n |-> IF k = p THEN EmbeddingObj(b.list, b.v, k - 1)
                      ELSE EmbeddingObj(TRUE, GoodShape, k - 1)]
      : p \in 1..n, b \in BadShapes }

\* what one POST to the embedding service ends in
Outcomes == {"ok", "client_error", "non200", "no_data", "no_timing"}

----------------------------------------------------------------------------
(* The store: Django's Model.save, Model.delete and the constraints *)

PagesOfDoc(docId) == {p \in pages : p.document = docId}

PageIdsOfDoc(docId) == {p.id : p \in PagesOfDoc(docId)}

EmbeddingsOfPage(pageId) == {e \in embeddings : e.page = pageId}

DocsNamed(collId, name) ==
    {d \in documents : d.collection = collId /\ d.name = name}

\* unique_document_per_collection, and the foreign key to Collection
SaveRejected(d) ==
    \/ \E r \in documents :
          r.id # d.pk /\ r.name = d.name /\ r.collection = d.collection
    \/ ~\E c \in collections : c.id = d.collection

\* the primary key Model.save() leaves on the instance
SavedPk(d) == IF d.pk = 0 THEN nextId.doc ELSE d.pk

DocRow(d) ==
    [id |-> SavedPk(d), collection |-> d.collection, name |-> d.name,
     url |-> d.url, s3_file |-> d.s3_file]

\* Model.save(): UPDATE the row of this pk, INSERT when there is none
DocumentsAfterSave(d) ==
    {r \in documents : r.id # SavedPk(d)} \cup {DocRow(d)}

NextIdAfterSave(d) ==
    IF d.pk = 0 THEN [nextId EXCEPT !.doc = @ + 1] ELSE nextId

\* mutant: the column takes a vector of any length
VectorAccepted_Any(dim) == TRUE

\* HalfVectorField(dimensions=128): the value of a PageEmbedding row
VectorAccepted(dim) == dim = EMBEDDING_DIM

----------------------------------------------------------------------------
(* Tasks: one coroutine per API request *)

\* DocumentIn: wait defaults to False; the requests of Spec set it
NoPayload ==
    [name |-> "", collection_name |-> "", url |-> "", base64 |-> "",
     wait |-> TRUE]

NoDoc == [pk |-> 0, collection |-> 0, name |-> "", url |-> "", s3_file |-> ""]

IdleTask ==
    [op |-> "idle", pc |-> "idle", owner |-> "", payload |-> NoPayload,
     doc |-> NoDoc, existed |-> FALSE, images |-> <<>>, batch |-> 0,
     attempts |-> 0, inflight |-> 0, request |-> <<>>, outcome |-> "",
     results |-> <<>>, sent |-> 0, delays |-> 0, p |-> 0, page |-> 0,
     k |-> 0, wrote |-> {}, saved |-> FALSE, resolved |-> "", err |-> "",
     status |-> 0, webhook |-> FALSE, scheduled |-> FALSE, ack |-> 0,
     notes |-> <<>>, sendfail |-> FALSE,
     coll |-> [id |-> 0, owner |-> "", name |-> ""], seen |-> {},
     document_name |-> ""]

Tasks == DOMAIN task

Min(a, b) == IF a < b THEN a ELSE b

\* the batches of embed_document: base64_images[i : i + EMBEDDINGS_BATCH_SIZE]
NumBatches(images) ==
    (Len(images) + EMBEDDINGS_BATCH_SIZE - 1) \div EMBEDDINGS_BATCH_SIZE

Batch(images, i) ==
    SubSeq(images, i * EMBEDDINGS_BATCH_SIZE + 1,
           Min((i + 1) * EMBEDDINGS_BATCH_SIZE, Len(images)))

\* mutant: every failed attempt is retried, whatever the error
ShouldRetry_Any(outcome, attempts) == attempts < MAX_ATTEMPTS

\* tenacity: retry_if_exception_type(aiohttp.ClientError), stop_after_attempt(3)
ShouldRetry(outcome, attempts) ==
    outcome = "client_error" /\ attempts < MAX_ATTEMPTS

\* mutant: the delay is taken after every batch, the last one too
ShouldDelay_Always(i, nbatches) == TRUE

\* "if i < len(batches) - 1": no delay after the last batch
ShouldDelay(i, nbatches) == i < nbatches - 1

\* the assert of embed_document on one embedding object
ShapeAsserted(obj) ==
    /\ obj.list
    /\ Len(obj.v) >= 1
    /\ obj.v[1] # -1
    /\ obj.v[1] = EMBEDDING_DIM

\* page_number of the i-th (0-based) embedding object: i + 1
PageNumber(i) == i + 1

\* an exception leaves the view: process_upsert_document catches it and answers
\* 400; partial_update_document does not, the request ends in a server error
Raised(t, err) ==
    IF task[t].op = "upsert"
    THEN [task[t] EXCEPT !.pc = "except", !.err = err]
    ELSE [task[t] EXCEPT !.pc = "done", !.err = err, !.status = 500]

Init ==
    /\ collections = {}
    /\ documents = {}
    /\ pages = {}
    /\ embeddings = {}
    /\ nextId = [coll |-> 1, doc |-> 1, page |-> 1]
    /\ task = [t \in {1} |-> IdleTask]
    /\ nreq = 0

CanStart(t) == task[t].pc \in {"idle", "done"} /\ nreq < MaxRequests

CollectionOf(owner, name) ==
    {c \in collections : c.owner = owner /\ c.name = name}

\* upsert_document and the head of process_upsert_document:
\* Collection.objects.aget_or_create(name, owner)
UpsertStart(t) ==
    /\ CanStart(t)
    /\ \E owner \in Owners, cn \in CollNames, dn \in DocNames,
          src \in URLs \cup Blobs :
         LET found == CollectionOf(owner, cn)
             collId == IF found = {} THEN nextId.coll
                       ELSE (CHOOSE c \in found : TRUE).id
         IN
         /\ collections' = IF found = {}
                           THEN collections \cup
                                {[id |-> collId, owner |-> owner, name |-> cn]}
                           ELSE collections
         /\ nextId' = IF found = {} THEN [nextId EXCEPT !.coll = @ + 1]
                      ELSE nextId
         /\ task' = [task EXCEPT ![t] =
                [IdleTask EXCEPT
                   !.op = "upsert", !.pc = "exists", !.owner = owner,
                   !.payload = [name |-> dn, collection_name |-> cn,
                                url |-> IF src \in URLs THEN src ELSE "",
                                base64 |-> IF src \in Blobs THEN src ELSE "",
                                wait |-> TRUE],
                   !.doc = [NoDoc EXCEPT !.collection = collId]]]
    /\ nreq' = nreq + 1
    /\ UNCHANGED <<documents, pages, embeddings>>

\* exists = Document.objects.filter(name, collection).aexists(); a new
\* Document instance when there is none
UpsertLookup(t) ==
    /\ task[t].pc = "exists"
    /\ LET T == task[t]
           exists == DocsNamed(T.doc.collection, T.payload.name) # {}
       IN
       task' = [task EXCEPT ![t] =
           IF exists
           THEN [T EXCEPT !.pc = "get", !.existed = TRUE]
           ELSE [T EXCEPT
                   !.pc = IF T.payload.base64 # "" THEN "s3" ELSE "prep",
                   !.doc = [pk |-> 0, collection |-> T.doc.collection,
                            name |-> T.payload.name, url |-> T.payload.url,
                            s3_file |-> ""]]]
    /\ UNCHANGED <<collections, documents, pages, embeddings, nextId, nreq>>

\* document = Document.objects.aget(name, collection);
\* document.url = payload.url or ""
UpsertGet(t) ==
    /\ task[t].pc = "get"
    /\ LET T == task[t]
           found == DocsNamed(T.doc.collection, T.payload.name)
       IN
       task' = [task EXCEPT ![t] =
           IF found = {}
           THEN Raised(t, "not_found")
           ELSE LET r == CHOOSE r \in found : TRUE IN
                [T EXCEPT !.pc = "clear",
                          !.doc = [pk |-> r.id, collection |-> r.collection,
                                   name |-> r.name, url |-> T.payload.url,
                                   s3_file |-> r.s3_file]]]
    /\ UNCHANGED <<collections, documents, pages, embeddings, nextId, nreq>>

\* mutant: the old pages are left in place until the new ones are written
ClearPages_Kept(t) ==
    /\ task[t].pc = "clear"
    /\ task' = [task EXCEPT ![t].pc =
           IF task[t].op = "upsert" /\ task[t].payload.base64 # ""
           THEN "s3" ELSE "prep"]
    /\ UNCHANGED <<collections, documents, pages, embeddings, nextId, nreq>>

\* await document.pages.all().adelete(): the old pages and, by cascade, their
\* vectors
ClearPages(t) ==
    /\ task[t].pc = "clear"
    /\ LET T == task[t] IN
       /\ pages' = pages \ PagesOfDoc(T.doc.pk)
       /\ embeddings' = {e \in embeddings : e.page \notin PageIdsOfDoc(T.doc.pk)}
       /\ task' = [task EXCEPT ![t] =
              [T EXCEPT !.pc = IF T.op = "upsert" /\ T.payload.base64 # ""
                               THEN "s3" ELSE "prep"]]
    /\ UNCHANGED <<collections, documents, nextId, nreq>>

\* Document.save_base64_to_s3: delete_s3_file(), decode, sniff, then
\* self.s3_file.save(filename, content, save=True), which saves the Document
\* row; every exception becomes a ValidationError
SaveBase64(t) ==
    /\ task[t].pc = "s3"
    /\ LET T == task[t]
           d == [T.doc EXCEPT !.s3_file = T.payload.base64]
       IN
       \E stored \in BOOLEAN :
          IF stored /\ ~SaveRejected(d)
          THEN /\ documents' = DocumentsAfterSave(d)
               /\ nextId' = NextIdAfterSave(d)
               /\ task' = [task EXCEPT ![t] =
                      [T EXCEPT !.pc = IF T.op = "upsert" THEN "prep" ELSE "clear",
                                !.doc = [d EXCEPT !.pk = SavedPk(d)],
                                !.saved = TRUE]]
          ELSE /\ task' = [task EXCEPT ![t] =
                      [Raised(t, "s3") EXCEPT !.doc.s3_file = ""]]
               /\ UNCHANGED <<documents, nextId>>
    /\ UNCHANGED <<collections, pages, embeddings, nreq>>

\* embed_document, line 265: base64_images = await self._prep_document(),
\* outside the try block
Prep(t) ==
    /\ task[t].pc = "prep"
    /\ LET T == task[t]
           r == PrepDocument(T.doc)
       IN
       task' = [task EXCEPT ![t] =
           IF r.ok
           THEN [T EXCEPT !.pc = "save", !.images = r.images,
                          !.resolved = ResolvedSource(T.doc)]
           ELSE [Raised(t, r.err) EXCEPT !.resolved = ResolvedSource(T.doc)]]
    /\ UNCHANGED <<collections, documents, pages, embeddings, nextId, nreq>>

\* where embed_document goes once batch i is done
AfterBatch(T, i) ==
    IF i + 1 < NumBatches(T.images)
    THEN [T EXCEPT !.pc = "send", !.batch = i + 1, !.attempts = 0]
    ELSE [T EXCEPT !.pc = IF Len(T.results) > 0 THEN "page" ELSE "refetch"]

\* mutant: the Document row is not saved before the batches are sent
EmbedSave_Skipped(t) ==
    /\ task[t].pc = "save"
    /\ task' = [task EXCEPT ![t].pc =
           IF NumBatches(task[t].images) > 0 THEN "send" ELSE "refetch"]
    /\ UNCHANGED <<collections, documents, pages, embeddings, nextId, nreq>>

\* try: await self.asave()  ("we save the document first, then save the pages")
EmbedSave(t) ==
    /\ task[t].pc = "save"
    /\ LET T == task[t] IN
       IF SaveRejected(T.doc)
       THEN /\ task' = [task EXCEPT ![t] =
                   [T EXCEPT !.pc = "cleanup", !.err = "persist"]]
            /\ UNCHANGED <<documents, nextId>>
       ELSE /\ documents' = DocumentsAfterSave(T.doc)
            /\ nextId' = NextIdAfterSave(T.doc)
            /\ task' = [task EXCEPT ![t] =
                   [T EXCEPT !.pc = IF NumBatches(T.images) > 0 THEN "send"
                                    ELSE "refetch",
                             !.doc.pk = SavedPk(T.doc),
                             !.saved = TRUE]]
    /\ UNCHANGED <<collections, pages, embeddings, nreq>>

\* send_batch: session.post(EMBEDDINGS_URL, json={task: image, input_data})
SendBatch(t) ==
    /\ task[t].pc = "send"
    /\ LET T == task[t] IN
       task' = [task EXCEPT ![t] =
           [T EXCEPT !.pc = "recv",
                     !.attempts = @ + 1,
                     !.sent = @ + 1,
                     !.inflight = @ + 1,
                     !.request = Batch(T.images, T.batch)]]
    /\ UNCHANGED <<collections, documents, pages, embeddings, nextId, nreq>>

\* the answer of the embedding service to the request in flight, and what
\* send_batch and the batch loop of embed_document make of it
RecvBatch(t) ==
    /\ task[t].pc = "recv"
    /\ LET T == [task[t] EXCEPT !.inflight = @ - 1] IN
       \E o \in Outcomes :
          IF o = "ok"
          THEN \E resp \in Responses(Len(T.request)) :
                 LET R == [T EXCEPT !.outcome = o, !.results = @ \o resp] IN
                 task' = [task EXCEPT ![t] =
                     IF ShouldDelay(T.batch, NumBatches(T.images))
                     THEN [R EXCEPT !.pc = "sleep"]
                     ELSE AfterBatch(R, T.batch)]
          ELSE task' = [task EXCEPT ![t] =
                   IF ShouldRetry(o, T.attempts)
                   THEN [T EXCEPT !.pc = "backoff", !.outcome = o]
                   ELSE [T EXCEPT !.pc = "cleanup", !.outcome = o,
                                  !.err = "embed"]]
    /\ UNCHANGED <<collections, documents, pages, embeddings, nextId, nreq>>

\* tenacity's wait_fixed(5) before the next attempt
Backoff(t) ==
    /\ task[t].pc = "backoff"
    /\ task' = [task EXCEPT ![t].pc = "send"]
    /\ UNCHANGED <<collections, documents, pages, embeddings, nextId, nreq>>

\* await asyncio.sleep(DELAY_BETWEEN_BATCHES)
Delay(t) ==
    /\ task[t].pc = "sleep"
    /\ task' = [task EXCEPT ![t] =
           AfterBatch([task[t] EXCEPT !.delays = @ + 1], task[t].batch)]
    /\ UNCHANGED <<collections, documents, pages, embeddings, nextId, nreq>>

\* the page loop, first half: the assert, then Page(document=self,
\* page_number=i + 1, img_base64=base64_images[i]) and await page.asave()
SavePage(t) ==
    /\ task[t].pc = "page"
    /\ LET T == task[t]
           obj == T.results[T.p + 1]
       IN
       IF /\ ShapeAsserted(obj)
          /\ T.p + 1 <= Len(T.images)
          /\ \E r \in documents : r.id = T.doc.pk
       THEN /\ pages' = pages \cup
                   {[id |-> nextId.page, document |-> T.doc.pk,
                     page_number |-> PageNumber(T.p),
                     img |-> T.images[T.p + 1]]}
            /\ nextId' = [nextId EXCEPT !.page = @ + 1]
            /\ task' = [task EXCEPT ![t] =
                   [T EXCEPT !.pc = "bulk", !.page = nextId.page,
                             !.wrote = @ \cup {nextId.page}]]
       ELSE /\ task' = [task EXCEPT ![t] =
                   [T EXCEPT !.pc = "cleanup",
                             !.err = IF ShapeAsserted(obj) THEN "persist"
                                     ELSE "shape"]]
            /\ UNCHANGED <<pages, nextId>>
    /\ UNCHANGED <<collections, documents, embeddings, nreq>>

\* the page loop, second half: PageEmbedding.objects.abulk_create(...), one
\* INSERT of all the vectors of the page
BulkCreate(t) ==
    /\ task[t].pc = "bulk"
    /\ LET T == task[t]
           obj == T.results[T.p + 1]
       IN
       IF /\ \A k \in 1..Len(obj.v) : VectorAccepted(obj.v[k])
          /\ \E r \in pages : r.id = T.page
       THEN /\ embeddings' = embeddings \cup
                   {[page |-> T.page, k |-> k, dim |-> obj.v[k]]
                    : k \in 1..Len(obj.v)}
            /\ task' = [task EXCEPT ![t] =
                   [T EXCEPT !.p = @ + 1,
                             !.pc = IF T.p + 1 < Len(T.results) THEN "page"
                                    ELSE "refetch"]]
       ELSE /\ task' = [task EXCEPT ![t] =
                   [T EXCEPT !.pc = "cleanup", !.err = "persist"]]
            /\ UNCHANGED embeddings
    /\ UNCHANGED <<collections, documents, pages, nextId, nreq>>

\* except Exception: if self.pk: await self.adelete(); raise ValidationError
Cleanup(t) ==
    /\ task[t].pc = "cleanup"
    /\ LET T == task[t] IN
       /\ IF T.doc.pk # 0
          THEN /\ documents' = {r \in documents : r.id # T.doc.pk}
               /\ pages' = pages \ PagesOfDoc(T.doc.pk)
               /\ embeddings' =
                     {e \in embeddings : e.page \notin PageIdsOfDoc(T.doc.pk)}
          ELSE UNCHANGED <<documents, pages, embeddings>>
       /\ task' = [task EXCEPT ![t] =
              [Raised(t, T.err) EXCEPT !.doc.pk = 0]]
    /\ UNCHANGED <<collections, nextId, nreq>>

\* process_upsert_document after embed_document: Document.objects.aget(id) with
\* num_pages, then 201
\* (when not payload.wait and the user has a webhook, svix.message.create of
\* "upsert.success" comes first; an exception of it is caught like any other)
UpsertRefetch(t) ==
    /\ task[t].pc = "refetch"
    /\ task[t].op = "upsert"
    /\ LET T == task[t] IN
       IF ~\E r \in documents : r.id = T.doc.pk
       THEN task' = [task EXCEPT ![t] = Raised(t, "not_found")]
       ELSE IF ~T.payload.wait /\ T.webhook
       THEN \E sent \in BOOLEAN :
               task' = [task EXCEPT ![t] =
                   IF sent
                   THEN [T EXCEPT !.pc = "done", !.status = 201,
                                  !.notes = Append(@, "upsert.success")]
                   ELSE [Raised(t, "webhook") EXCEPT !.sendfail = TRUE]]
       ELSE task' = [task EXCEPT ![t] = [T EXCEPT !.pc = "done", !.status = 201]]
    /\ UNCHANGED <<collections, documents, pages, embeddings, nextId, nreq>>

\* process_upsert_document, except Exception: 400 with the error's text
\* (when not payload.wait: "upsert.fail" to the user's webhook, or without a
\* webhook an email; an exception of the sending call leaves the task)
UpsertExcept(t) ==
    /\ task[t].pc = "except"
    /\ LET T == task[t] IN
       IF T.payload.wait
       THEN task' = [task EXCEPT ![t] = [T EXCEPT !.pc = "done", !.status = 400]]
       ELSE \E sent \in BOOLEAN :
               task' = [task EXCEPT ![t] =
                   IF sent
                   THEN [T EXCEPT !.pc = "done", !.status = 400,
                                  !.notes = Append(@, IF T.webhook THEN "upsert.fail"
                                                      ELSE "email")]
                   ELSE [T EXCEPT !.pc = "done", !.status = 500,
                                  !.sendfail = TRUE]]
    /\ UNCHANGED <<collections, documents, pages, embeddings, nextId, nreq>>

\* query.aget(name=document_name, collection__owner=request.auth), with
\* collection__name=collection_name unless collection_name == "all": the rows
\* the query matches
DocLookup(owner, cn, dn) ==
    {d \in documents :
       /\ d.name = dn
       /\ \E c \in collections :
             /\ c.id = d.collection
             /\ c.owner = owner
             /\ (cn = "all" \/ c.name = cn)}

\* mutant: aget takes the first row when several match
Ambiguous_Never(found) == FALSE

\* aget raises Document.MultipleObjectsReturned
Ambiguous(found) == Cardinality(found) > 1

\* mutant: a supplied URL re-embeds the document, the stored one too
UrlChanged_Supplied(url, stored) == url # ""

\* "if payload.url and payload.url != document.url"
UrlChanged(url, stored) == url # "" /\ url # stored

\* partial_update_document: the lookup (404, 409) and the choice of branch
PatchFrom(t, owners, colls, names, sources, newNames) ==
    /\ CanStart(t)
    /\ \E owner \in owners, cn \in colls, dn \in names,
          src \in sources, newName \in newNames :
         LET found == DocLookup(owner, cn, dn)
             payload == [name |-> newName, collection_name |-> cn,
                         url |-> IF src \in URLs THEN src ELSE "",
                         base64 |-> IF src \in Blobs THEN src ELSE "",
                         wait |-> TRUE]
             T ==[IdleTask EXCEPT !.op = "patch", !.owner = owner,
                                   !.payload = payload, !.existed = TRUE,
                                   !.document_name = dn]
         IN
         task' = [task EXCEPT ![t] =
             IF found = {}
             THEN [T EXCEPT !.pc = "done", !.status = 404]
             ELSE IF Ambiguous(found)
             THEN [T EXCEPT !.pc = "done", !.status = 409]
             ELSE LET r == CHOOSE r \in found : TRUE
                      d == [pk |-> r.id, collection |-> r.collection,
                            name |-> IF newName # "" THEN newName ELSE r.name,
                            url |-> r.url, s3_file |-> r.s3_file]
                  IN
                  IF UrlChanged(payload.url, r.url)
                  THEN [T EXCEPT !.pc = "clear",
                                 !.doc = [d EXCEPT !.url = payload.url]]
                  ELSE IF payload.base64 # ""
                  THEN [T EXCEPT !.pc = "s3", !.doc = d]
                  ELSE [T EXCEPT !.pc = "asave", !.doc = d]]
    /\ nreq' = nreq + 1
    /\ UNCHANGED <<collections, documents, pages, embeddings, nextId>>

\* the requests of Spec to partial_update_document
PatchStart(t) ==
    PatchFrom(t, Owners, CollNames, DocNames, URLs \cup Blobs \cup {""},
              DocNames \cup {""})

\* partial_update_document, else branch: name and metadata only, document.asave()
PatchSave(t) ==
    /\ task[t].pc = "asave"
    /\ LET T == task[t] IN
       IF SaveRejected(T.doc)
       THEN /\ task' = [task EXCEPT ![t] = Raised(t, "persist")]
            /\ UNCHANGED <<documents, nextId>>
       ELSE /\ documents' = DocumentsAfterSave(T.doc)
            /\ nextId' = NextIdAfterSave(T.doc)
            /\ task' = [task EXCEPT ![t] = [T EXCEPT !.pc = "refetch"]]
    /\ UNCHANGED <<collections, pages, embeddings, nreq>>

\* partial_update_document: Document.objects.aget(id=document.id), then 200
PatchRefetch(t) ==
    /\ task[t].pc = "refetch"
    /\ task[t].op = "patch"
    /\ task' = [task EXCEPT ![t] =
           IF \E r \in documents : r.id = task[t].doc.pk
           THEN [task[t] EXCEPT !.pc = "done", !.status = 200]
           ELSE Raised(t, "not_found")]
    /\ UNCHANGED <<collections, documents, pages, embeddings, nextId, nreq>>

Next ==
    \/ \E t \in Tasks : UpsertStart(t)
    \/ \E t \in Tasks : UpsertLookup(t)
    \/ \E t \in Tasks : UpsertGet(t)
    \/ \E t \in Tasks : ClearPages(t)
    \/ \E t \in Tasks : SaveBase64(t)
    \/ \E t \in Tasks : Prep(t)
    \/ \E t \in Tasks : EmbedSave(t)
    \/ \E t \in Tasks : SendBatch(t)
    \/ \E t \in Tasks : RecvBatch(t)
    \/ \E t \in Tasks : Backoff(t)
    \/ \E t \in Tasks : Delay(t)
    \/ \E t \in Tasks : SavePage(t)
    \/ \E t \in Tasks : BulkCreate(t)
    \/ \E t \in Tasks : Cleanup(t)
    \/ \E t \in Tasks : UpsertRefetch(t)
    \/ \E t \in Tasks : UpsertExcept(t)
    \/ \E t \in Tasks : PatchStart(t)
    \/ \E t \in Tasks : PatchSave(t)
    \/ \E t \in Tasks : PatchRefetch(t)

Spec == Init /\ [][Next]_vars

----------------------------------------------------------------------------
(* The older ingestion of src/api: upsert_document and Document.embed_document
   with batches of 5, one Page per embedding object numbered by the object's
   "index", and one INSERT per vector.  The older Document keeps its inline
   payload in a "base64" column; the record field s3_file holds it here. *)

\* the inline payloads given to the older upsert
LegacyBlobs == {"b_long", "b_pdf", "b_bin", "b_big"}

\* _prep_document of src/api/models.py for a base64 document: decode, size,
\* sniffed type, allow-list, then the same branch by kind
LegacyPrepDocument(d) ==
    IF d.s3_file = "" THEN PrepFail("missing")
    ELSE PrepConvert(d.s3_file, Source(d.s3_file).size,
                     ExtensionFromMime(Source(d.s3_file).mime))

LegacyNumBatches(images) ==
    (Len(images) + LEGACY_BATCH_SIZE - 1) \div LEGACY_BATCH_SIZE

LegacyBatch(images, i) ==
    SubSeq(images, i * LEGACY_BATCH_SIZE + 1,
           Min((i + 1) * LEGACY_BATCH_SIZE, Len(images)))

\* page_number=embedding_obj["index"] + 1
LegacyPageNumber(obj) == obj.index + 1

\* create_collection: Collection.objects.acreate(name, owner)
LegacyCreateCollection ==
    /\ \E owner \in Owners, cn \in CollNames :
         /\ CollectionOf(owner, cn) = {}
         /\ collections' = collections \cup
               {[id |-> nextId.coll, owner |-> owner, name |-> cn]}
         /\ nextId' = [nextId EXCEPT !.coll = @ + 1]
    /\ UNCHANGED <<documents, pages, embeddings, task, nreq>>

\* upsert_document of src/api/views.py: the collection by id, then the
\* existing Document with url and base64 replaced, or a new instance
LegacyUpsert(t) ==
    /\ task[t].pc = "idle"
    /\ \E c \in collections, dn \in DocNames, src \in LegacyBlobs :
         LET found == DocsNamed(c.id, dn)
             pk == IF found = {} THEN 0 ELSE (CHOOSE r \in found : TRUE).id
         IN
         task' = [task EXCEPT ![t] =
             [IdleTask EXCEPT
                !.op = "legacy", !.pc = "lprep", !.owner = c.owner,
                !.existed = found # {},
                !.payload = [name |-> dn, collection_name |-> c.name,
                             url |-> "", base64 |-> src, wait |-> TRUE],
                !.doc = [pk |-> pk, collection |-> c.id, name |-> dn,
                         url |-> "", s3_file |-> src]]]
    /\ nreq' = nreq + 1
    /\ UNCHANGED <<collections, documents, pages, embeddings, nextId>>

\* base64_images = await self._prep_document(); a ValidationError is a 400
LegacyPrep(t) ==
    /\ task[t].pc = "lprep"
    /\ LET T == task[t]
           r == LegacyPrepDocument(T.doc)
       IN
       task' = [task EXCEPT ![t] =
           IF r.ok THEN [T EXCEPT !.pc = "lsave", !.images = r.images]
           ELSE [T EXCEPT !.pc = "done", !.err = r.err, !.status = 400]]
    /\ UNCHANGED <<collections, documents, pages, embeddings, nextId, nreq>>

\* try: await self.asave()
LegacySave(t) ==
    /\ task[t].pc = "lsave"
    /\ LET T == task[t] IN
       IF SaveRejected(T.doc)
       THEN /\ task' = [task EXCEPT ![t] =
                   [T EXCEPT !.pc = "lcleanup", !.err = "persist"]]
            /\ UNCHANGED <<documents, nextId>>
       ELSE /\ documents' = DocumentsAfterSave(T.doc)
            /\ nextId' = NextIdAfterSave(T.doc)
            /\ task' = [task EXCEPT ![t] =
                   [T EXCEPT !.pc = IF LegacyNumBatches(T.images) > 0
                                    THEN "lsend" ELSE "done",
                             !.status = IF LegacyNumBatches(T.images) > 0
                                        THEN 0 ELSE 200,
                             !.doc.pk = SavedPk(T.doc),
                             !.saved = TRUE]]
    /\ UNCHANGED <<collections, pages, embeddings, nreq>>

\* embeddings_objects = await send_batch(batch): one POST, no retry
LegacySendBatch(t) ==
    /\ task[t].pc = "lsend"
    /\ LET T == task[t]
           batch == LegacyBatch(T.images, T.batch)
       IN
       \E o \in {"ok", "client_error", "non200"} :
          IF o = "ok"
          THEN \E resp \in Responses(Len(batch)) :
                 task' = [task EXCEPT ![t] =
                     [T EXCEPT !.pc = "lpage", !.sent = @ + 1, !.outcome = o,
                               !.request = batch, !.results = resp, !.p = 0]]
          ELSE task' = [task EXCEPT ![t] =
                   [T EXCEPT !.pc = "lcleanup", !.sent = @ + 1, !.outcome = o,
                             !.request = batch, !.err = "embed"]]
    /\ UNCHANGED <<collections, documents, pages, embeddings, nextId, nreq>>

\* where the older embed_document goes after the vectors of one object
LegacyAfterPage(T) ==
    IF T.p + 1 < Len(T.results)
    THEN [T EXCEPT !.pc = "lpage", !.p = @ + 1, !.k = 0]
    ELSE IF T.batch + 1 < LegacyNumBatches(T.images)
    THEN [T EXCEPT !.pc = "lsend", !.batch = @ + 1, !.k = 0]
    ELSE [T EXCEPT !.pc = "done", !.status = 200, !.k = 0]

\* the assert, then Page(page_number=index + 1, img_base64=batch[index]).asave()
LegacySavePage(t) ==
    /\ task[t].pc = "lpage"
    /\ LET T == task[t]
           obj == T.results[T.p + 1]
       IN
       IF /\ ShapeAsserted(obj)
          /\ obj.index + 1 <= Len(T.request)
          /\ \E r \in documents : r.id = T.doc.pk
       THEN /\ pages' = pages \cup
                   {[id |-> nextId.page, document |-> T.doc.pk,
                     page_number |-> LegacyPageNumber(obj),
                     img |-> T.request[obj.index + 1]]}
            /\ nextId' = [nextId EXCEPT !.page = @ + 1]
            /\ task' = [task EXCEPT ![t] =
                   [T EXCEPT !.pc = "lemb", !.page = nextId.page, !.k = 0,
                             !.wrote = @ \cup {nextId.page}]]
       ELSE /\ task' = [task EXCEPT ![t] =
                   [T EXCEPT !.pc = "lcleanup",
                             !.err = IF ShapeAsserted(obj) THEN "persist"
                                     ELSE "shape"]]
            /\ UNCHANGED <<pages, nextId>>
    /\ UNCHANGED <<collections, documents, embeddings, nreq>>

\* for embedding in embedding_obj["embedding"]: PageEmbedding(...).asave()
LegacySaveEmbedding(t) ==
    /\ task[t].pc = "lemb"
    /\ LET T == task[t]
           obj == T.results[T.p + 1]
       IN
       IF VectorAccepted(obj.v[T.k + 1]) /\ \E r \in pages : r.id = T.page
       THEN /\ embeddings' = embeddings \cup
                   {[page |-> T.page, k |-> T.k + 1, dim |-> obj.v[T.k + 1]]}
            /\ task' = [task EXCEPT ![t] =
                   IF T.k + 1 < Len(obj.v)
                   THEN [T EXCEPT !.k = @ + 1]
                   ELSE LegacyAfterPage(T)]
       ELSE /\ task' = [task EXCEPT ![t] =
                   [T EXCEPT !.pc = "lcleanup", !.err = "persist"]]
            /\ UNCHANGED embeddings
    /\ UNCHANGED <<collections, documents, pages, nextId, nreq>>

\* except Exception: await self.adelete(); raise ValidationError (a 400);
\* Model.delete() of an instance without a primary key raises instead
LegacyCleanup(t) ==
    /\ task[t].pc = "lcleanup"
    /\ LET T == task[t] IN
       /\ documents' = {r \in documents : r.id # T.doc.pk}
       /\ pages' = pages \ PagesOfDoc(T.doc.pk)
       /\ embeddings' =
             {e \in embeddings : e.page \notin PageIdsOfDoc(T.doc.pk)}
       /\ task' = [task EXCEPT ![t] =
              [T EXCEPT !.pc = "done", !.doc.pk = 0,
                        !.status = IF T.doc.pk = 0 THEN 500 ELSE 400]]
    /\ UNCHANGED <<collections, nextId, nreq>>

NextLegacy ==
    \/ LegacyCreateCollection
    \/ \E t \in Tasks : LegacyUpsert(t)
    \/ \E t \in Tasks : LegacyPrep(t)
    \/ \E t \in Tasks : LegacySave(t)
    \/ \E t \in Tasks : LegacySendBatch(t)
    \/ \E t \in Tasks : LegacySavePage(t)
    \/ \E t \in Tasks : LegacySaveEmbedding(t)
    \/ \E t \in Tasks : LegacyCleanup(t)

\* one ingestion by the older code, from the empty store
SpecLegacy == Init /\ [][NextLegacy]_vars

----------------------------------------------------------------------------
(* The claims *)

Done(t) == task[t].pc = "done"

IngestionErrors ==
    {"fetch", "size", "extension", "convert", "raster", "missing", "embed",
     "shape", "persist"}

\* C1: atomicity of upsert. After an upsert that failed at normalisation, at an
\* embedding batch call or while persisting, no Document of the attempted name
\* is in the target collection and no Page or PageEmbedding it wrote remains.
C1_Atomicity ==
    \A t \in Tasks :
       (/\ task[t].op = "upsert" /\ Done(t) /\ task[t].status = 400
        /\ task[t].err \in IngestionErrors)
       => /\ DocsNamed(task[t].doc.collection, task[t].payload.name) = {}
          /\ \A p \in pages : p.id \notin task[t].wrote
          /\ \A e \in embeddings : e.page \notin task[t].wrote

\* the page images normalisation makes of the content an upsert supplies
SuppliedImages(payload) ==
    IF payload.url # "" THEN PrepUrl(payload.url).images
    ELSE PrepBlob(payload.base64).images

\* C2: idempotent re-ingestion. After a successful upsert of a name that already
\* existed there is exactly one Document of that name in the collection, and
\* its Pages are exactly the pages of the newly supplied content.
C2_Idempotent ==
    \A t \in Tasks :
       (/\ task[t].op = "upsert" /\ Done(t) /\ task[t].status = 201
        /\ task[t].existed)
       => LET docs == DocsNamed(task[t].doc.collection, task[t].payload.name)
              imgs == SuppliedImages(task[t].payload)
          IN /\ Cardinality(docs) = 1
             /\ \A d \in docs :
                  {<<p.page_number, p.img>> : p \in PagesOfDoc(d.id)}
                    = {<<k, imgs[k]>> : k \in 1..Len(imgs)}

\* every page image of the ingestion is stored as a Page with its vectors
AllPagesStored(T) ==
    \A k \in 1..Len(T.images) :
       \E p \in PagesOfDoc(T.doc.pk) :
          /\ p.page_number = k
          /\ p.img = T.images[k]
          /\ EmbeddingsOfPage(p.id) # {}

C4_NoEmptyPage ==
    \A p \in pages : EmbeddingsOfPage(p.id) # {}

\* an embedding object that is not a list of vectors of 128 components
Malformed(obj) ==
    \/ ~obj.list
    \/ \E k \in 1..Len(obj.v) : obj.v[k] # EMBEDDING_DIM

\* C6: dimension invariant. Every stored vector has 128 components, and an
\* ingestion whose embedding response held a malformed object (any vector of
\* any page) fails and stores nothing.
C6_Dimension ==
    /\ \A e \in embeddings : e.dim = EMBEDDING_DIM
    /\ \A t \in Tasks :
          (/\ Done(t)
           /\ \E k \in 1..Len(task[t].results) : Malformed(task[t].results[k]))
          => /\ task[t].status \notin {200, 201}
             /\ \A p \in pages : p.id \notin task[t].wrote
             /\ \A e \in embeddings : e.page \notin task[t].wrote

C6_Witness ==
    \E t \in Tasks :
       /\ Done(t) /\ task[t].status = 400 /\ task[t].err = "persist"
       /\ task[t].wrote # {}
       /\ \E k \in 1..Len(task[t].results) :
             task[t].results[k].v = <<EMBEDDING_DIM, EMBEDDING_DIM - 1>>

\* C7: single content source. No Document row has both a non-empty url and a
\* stored blob.
C7_SingleSource ==
    \A d \in documents : d.url = "" \/ d.s3_file = ""

C8_State ==
    \A t \in Tasks :
       /\ task[t].attempts <= MAX_ATTEMPTS
       /\ task[t].pc = "backoff" => task[t].outcome = "client_error"
       /\ (Done(t) /\ task[t].outcome \in {"non200", "no_data"})
             => task[t].status \notin {200, 201}

C8_Step ==
    \A t \in Tasks :
       task'[t].sent = task[t].sent + 1
       => /\ task'[t].attempts <= MAX_ATTEMPTS
          /\ task'[t].attempts > 1 => task[t].outcome = "client_error"
          /\ task[t].outcome \notin {"non200", "no_data"}

\* C8: embedding retry policy. A batch request is made at most 3 times, a
\* further attempt only after a transport error (aiohttp.ClientError); after a
\* non-200 answer or a 200 answer without output.data no request is sent
\* again, by retry or for a later batch, and the ingestion fails.
C8_RetryPolicy == []C8_State /\ [][C8_Step]_vars

C8_Witness ==
    \E t \in Tasks :
       /\ Done(t) /\ task[t].status = 400 /\ task[t].outcome = "non200"
       /\ task[t].attempts = 2 /\ task[t].batch = 0
       /\ NumBatches(task[t].images) = 2

ResolvedExtension(s) ==
    IF s \in FetchedSources THEN UrlExtension(s) ELSE BlobExtension(s)

\* the payload _prep_document resolves must be rejected: none, more than
\* 50 MiB declared or read, or an extension outside the allow-list
MustReject(s) ==
    \/ s = ""
    \/ Source(s).clen > MAX_SIZE_MIB
    \/ Source(s).size > MAX_SIZE_MIB /\ Source(s).ctype # "text/html"
    \/ ResolvedExtension(s) \notin ALLOWED_EXTENSIONS

C5_Contiguity ==
    \A t \in Tasks :
       (/\ task[t].op \in {"upsert", "patch", "legacy"} /\ Done(t)
        /\ task[t].status \in {200, 201}
        /\ task[t].images # <<>>)
       => LET stored == PagesOfDoc(task[t].doc.pk) IN
          /\ {p.page_number : p \in stored} = 1..Len(task[t].images)
          /\ Cardinality(stored) = Len(task[t].images)

----------------------------------------------------------------------------
(* Retrieval: search, search_image and filter of src/web/api/views.py, and the
   older search of src/api/views.py, over a store that ingestion has filled.
   Collection and Document rows carry their metadata here, PageEmbedding rows
   their vector (vec). *)

SearchUsers == {"A", "B"}
MetaKeys == {"important", "contains"}

\* the JSON objects over MetaKeys with boolean members
Metas == UNION {[S -> BOOLEAN] : S \in SUBSET MetaKeys}

NoMeta == [k \in {} |-> TRUE]

Lookups ==
    {"key_lookup", "contains", "contained_by", "has_key", "has_keys",
     "has_any_keys"}

\* "key" of a QueryFilter as the request gives it: one string or a list
RawKeys ==
    {[kind |-> "str", str |-> s, list |-> {}] : s \in MetaKeys}
    \cup
    {[kind |-> "list", str |-> "", list |-> S]
     : S \in {{"important"}, {"contains", "other"}}}

\* "value" of a QueryFilter: absent (None) or a scalar
RawValues ==
    {[given |-> FALSE, v |-> FALSE]} \cup {[given |-> TRUE, v |-> b] : b \in BOOLEAN}

NoFilter ==
    [present |-> FALSE, on |-> "document", lookup |-> "key_lookup",
     key |-> [kind |-> "str", str |-> "", list |-> {}],
     value |-> [given |-> FALSE, v |-> FALSE]]

RawFilters ==
    {[present |-> TRUE, on |-> o, lookup |-> l, key |-> k, value |-> v]
     : o \in {"document", "collection"}, l \in Lookups, k \in RawKeys,
       v \in RawValues}

\* mutant: has_key does not refuse a value
validate_filter_AnyValue(f) ==
    /\ f.lookup \in {"contains", "contained_by", "key_lookup"}
          => f.key.kind = "str" /\ f.value.given
    /\ f.lookup = "has_key" => f.key.kind = "str"
    /\ f.lookup \in {"has_keys", "has_any_keys"}
          => f.key.kind = "list" /\ ~f.value.given

\* QueryFilter.validate_filter: TRUE when no ValueError is raised
validate_filter(f) ==
    /\ f.lookup \in {"contains", "contained_by", "key_lookup"}
          => f.key.kind = "str" /\ f.value.given
    /\ f.lookup = "has_key" => f.key.kind = "str" /\ ~f.value.given
    /\ f.lookup \in {"has_keys", "has_any_keys"}
          => f.key.kind = "list" /\ ~f.value.given

\* filter(**{f"{field_prefix}__{k}": v}): Django reads the last part of the
\* path as a lookup of the JSON field when it has one of that name ("contains":
\* metadata @> v, which no JSON object satisfies for a scalar v), and as a key
\* of the object otherwise
KeyLookup(meta, k, v) ==
    IF k = "contains" THEN FALSE
    ELSE k \in DOMAIN meta /\ meta[k] = v

\* metadata__contains = {k: v}
MetaContains(meta, k, v) == k \in DOMAIN meta /\ meta[k] = v

\* metadata__contained_by = {k: v}
MetaContainedBy(meta, k, v) == \A j \in DOMAIN meta : j = k /\ meta[j] = v

\* what filter(**lookup_operations[lookup](key, value)) keeps
Matches(meta, f) ==
    CASE f.lookup = "key_lookup"   -> KeyLookup(meta, f.key.str, f.value.v)
      [] f.lookup = "contains"     -> MetaContains(meta, f.key.str, f.value.v)
      [] f.lookup = "contained_by" -> MetaContainedBy(meta, f.key.str, f.value.v)
      [] f.lookup = "has_key"      -> f.key.str \in DOMAIN meta
      [] f.lookup = "has_keys"     -> f.key.list \subseteq DOMAIN meta
      [] f.lookup = "has_any_keys" -> f.key.list \cap DOMAIN meta # {}

DocOfPage(p) == CHOOSE d \in documents : d.id = p.document

CollOfDoc(d) == CHOOSE c \in collections : c.id = d.collection

\* filter_query: the pages of the user's collections, of the named collection
\* unless the name is "all", whose document or collection metadata matches
filter_query(payload, user) ==
    {p \in pages :
        LET d == DocOfPage(p)
            c == CollOfDoc(d)
            f == payload.query_filter
        IN
        /\ c.owner = user
        /\ payload.collection_name = "all" \/ c.name = payload.collection_name
        /\ f.present =>
              Matches(IF f.on = "collection" THEN c.metadata ELSE d.metadata, f)}

filter_documents(f, user) ==
    {d \in documents : CollOfDoc(d).owner = user /\ Matches(d.metadata, f)}

filter_collections(f, user) ==
    {c \in collections : c.owner = user /\ Matches(c.metadata, f)}

\* the vectors stored for a page
VectorsOfPage(pageId) == {e.vec : e \in EmbeddingsOfPage(pageId)}

Dot(a, b) == a[1] * b[1] + a[2] * b[2]

MaxOf(S) == CHOOSE x \in S : \A y \in S : y <= x

\* mutant: each query vector is compared with one vector of the page
RECURSIVE MaxSim_Any(_, _)
MaxSim_Any(pvecs, q) ==
    IF q = <<>> THEN 0
    ELSE Dot(Head(q), CHOOSE d \in pvecs : TRUE) + MaxSim_Any(pvecs, Tail(q))

\* max_sim(page_embeddings, query_embeddings): for every query vector the
\* best dot product among the page's vectors, summed over the query vectors
RECURSIVE MaxSim(_, _)
MaxSim(pvecs, q) ==
    IF q = <<>> THEN 0
    ELSE MaxOf({Dot(Head(q), d) : d \in pvecs}) + MaxSim(pvecs, Tail(q))

Score(pageId, q) == MaxSim(VectorsOfPage(pageId), q)

\* order_by("-max_sim"): every order of the candidates by non-increasing
\* score; the order among equal scores is the database's choice
RECURSIVE Ranked(_, _)
Ranked(cands, q) ==
    IF cands = {} THEN {<<>>}
    ELSE LET best == MaxOf({Score(p, q) : p \in cands})
             top  == {p \in cands : Score(p, q) = best}
         IN UNION {{<<p>> \o s : s \in Ranked(cands \ {p}, q)} : p \in top}

\* top_k of the request: absent, null or an integer
TopKs ==
    {[kind |-> "absent", n |-> 0], [kind |-> "null", n |-> 0]}
    \cup {[kind |-> "int", n |-> n] : n \in {0, 2, 5}}

\* QueryIn.top_k: Optional[int] = 3
SchemaTopK(raw) ==
    CASE raw.kind = "absent" -> [null |-> FALSE, n |-> 3]
      [] raw.kind = "null"   -> [null |-> TRUE, n |-> 0]
      [] OTHER               -> [null |-> FALSE, n |-> raw.n]

\* payload.top_k or 3
SliceLimit(top_k) == IF top_k.null \/ top_k.n = 0 THEN 3 ELSE top_k.n

\* seq[:n]
Take(seq, n) == SubSeq(seq, 1, Min(n, Len(seq)))

\* what the embedding service answers to a query
QueryEmbeddings == { << <<1, 0>> >>, << <<0, 1>>, <<1, 1>> >> }

QueryOutcomes == {"ok", "empty", "non200", "client_error", "no_data"}

NoQuery ==
    [collection_name |-> "all", collection_id |-> 0,
     top_k |-> [null |-> FALSE, n |-> 3], raw_top_k |-> [kind |-> "absent", n |-> 0],
     query_filter |-> NoFilter]

SearchIdle ==
    [op |-> "idle", pc |-> "idle", user |-> "", payload |-> NoQuery,
     q |-> <<>>, outcome |-> "", cands |-> {}, results |-> <<>>, found |-> {},
     queried |-> FALSE, status |-> 0, scores |-> <<>>]

\* a store as ingestion leaves it: A owns collections C and D, B owns its own
\* C; every document has one page; the metadata of A's document X in C is any
\* of Metas
SeedCollections ==
    {[id |-> 1, owner |-> "A", name |-> "C", metadata |-> ("important" :> TRUE)],
     [id |-> 2, owner |-> "B", name |-> "C", metadata |-> ("important" :> TRUE)],
     [id |-> 3, owner |-> "A", name |-> "D", metadata |-> NoMeta]}

SeedDocuments(m) ==
    {[id |-> 1, collection |-> 1, name |-> "X", url |-> "u_html", s3_file |-> "",
      metadata |-> m],
     [id |-> 2, collection |-> 1, name |-> "Y", url |-> "", s3_file |-> "b_png",
      metadata |-> ("important" :> FALSE)],
     [id |-> 3, collection |-> 3, name |-> "X", url |-> "u_html", s3_file |-> "",
      metadata |-> ("important" :> TRUE)],
     [id |-> 4, collection |-> 3, name |-> "Y", url |-> "", s3_file |-> "b_png",
      metadata |-> NoMeta],
     [id |-> 5, collection |-> 2, name |-> "X", url |-> "u_html", s3_file |-> "",
      metadata |-> ("important" :> TRUE)]}

SeedPages ==
    {[id |-> d.id, document |-> d.id, page_number |-> 1,
      img |-> Rasterize(IF d.url # "" THEN d.url ELSE d.s3_file).images[1]]
     : d \in SeedDocuments(NoMeta)}

\* the vectors of each page (pages 1 and 4 score alike for every query; B's
\* page 5 scores highest)
SeedVectors ==
    (1 :> <<<<1, 0>>>>) @@ (2 :> <<<<0, 1>>, <<1, 0>>>>) @@ (3 :> <<<<0, 1>>>>)
    @@ (4 :> <<<<1, 0>>>>) @@ (5 :> <<<<1, 1>>, <<1, 1>>>>)

SeedEmbeddings ==
    UNION {{[page |-> p, k |-> k, dim |-> EMBEDDING_DIM, vec |-> SeedVectors[p][k]]
            : k \in 1..Len(SeedVectors[p])} : p \in DOMAIN SeedVectors}

InitSearch ==
    /\ collections = SeedCollections
    /\ \E m \in Metas : documents = SeedDocuments(m)
    /\ pages = SeedPages
    /\ embeddings = SeedEmbeddings
    /\ nextId = [coll |-> 4, doc |-> 6, page |-> 6]
    /\ task = [t \in {1} |-> SearchIdle]
    /\ nreq = 0

\* POST /search/ and /search-image/: the request is parsed into QueryIn or
\* SearchImageIn; a QueryFilter that validate_filter refuses ends the request
\* with 422 before the view runs
SearchStart(t) ==
    /\ task[t].pc = "idle"
    /\ \E op \in {"search", "search_image"}, user \in SearchUsers,
          cn \in {"all", "C", "D"}, k \in TopKs, f \in {NoFilter} \cup RawFilters :
         LET T == [SearchIdle EXCEPT
                     !.op = op, !.user = user,
                     !.payload = [NoQuery EXCEPT !.collection_name = cn,
                                                 !.raw_top_k = k,
                                                 !.top_k = SchemaTopK(k),
                                                 !.query_filter = f]]
         IN
         task' = [task EXCEPT ![t] =
             IF f.present /\ ~validate_filter(f)
             THEN [T EXCEPT !.pc = "done", !.status = 422]
             ELSE [T EXCEPT !.pc = "qembed"]]
    /\ UNCHANGED <<collections, documents, pages, embeddings, nextId, nreq>>

\* get_query_embeddings / get_image_embeddings and the check of search on
\* their result: a non-200 answer gives [], and "if not query_embeddings" 503;
\* an exception of session.post or of out["output"]["data"] leaves the view
SearchEmbed(t) ==
    /\ task[t].pc = "qembed"
    /\ LET T == task[t] IN
       \E o \in QueryOutcomes :
          CASE o = "ok" ->
                 \E q \in QueryEmbeddings :
                    task' = [task EXCEPT ![t] =
                        [T EXCEPT !.pc = "rank", !.outcome = o, !.q = q]]
            [] o \in {"empty", "non200"} ->
                 task' = [task EXCEPT ![t] =
                     [T EXCEPT !.pc = "done", !.outcome = o, !.status = 503]]
            [] OTHER ->
                 task' = [task EXCEPT ![t] =
                     [T EXCEPT !.pc = "done", !.outcome = o, !.status = 500]]
    /\ UNCHANGED <<collections, documents, pages, embeddings, nextId, nreq>>

\* search: filter_query, annotate max_sim, order_by("-max_sim")[: top_k or 3]
SearchRank(t) ==
    /\ task[t].pc = "rank"
    /\ LET T == task[t]
           cands == {p.id : p \in filter_query(T.payload, T.user)}
       IN
       \E order \in Ranked(cands, T.q) :
          LET results == Take(order, SliceLimit(T.payload.top_k)) IN
          task' = [task EXCEPT ![t] =
              [T EXCEPT !.pc = "done", !.status = 200, !.queried = TRUE,
                        !.cands = cands,
                        !.results = results,
                        !.scores = [i \in 1..Len(results) |->
                                      Score(results[i], T.q)]]]
    /\ UNCHANGED <<collections, documents, pages, embeddings, nextId, nreq>>

\* POST /filter/: the payload is a QueryFilter
FilterStart(t) ==
    /\ task[t].pc = "idle"
    /\ \E user \in SearchUsers, f \in RawFilters :
         LET T == [SearchIdle EXCEPT
                     !.op = "filter", !.user = user,
                     !.payload = [NoQuery EXCEPT !.query_filter = f]]
         IN
         task' = [task EXCEPT ![t] =
             IF ~validate_filter(f)
             THEN [T EXCEPT !.pc = "done", !.status = 422]
             ELSE [T EXCEPT !.pc = "frun"]]
    /\ UNCHANGED <<collections, documents, pages, embeddings, nextId, nreq>>

\* filter: filter_documents or filter_collections by payload.on
FilterRun(t) ==
    /\ task[t].pc = "frun"
    /\ LET T == task[t]
           f == T.payload.query_filter
       IN
       task' = [task EXCEPT ![t] =
           [T EXCEPT !.pc = "done", !.status = 200, !.queried = TRUE,
                     !.found = IF f.on = "document"
                               THEN {d.id : d \in filter_documents(f, T.user)}
                               ELSE {c.id : c \in filter_collections(f, T.user)}]]
    /\ UNCHANGED <<collections, documents, pages, embeddings, nextId, nreq>>

\* search of src/api/views.py: with a collection_id the collection is looked
\* up by id alone (404 when there is none) and the pages are those of its
\* documents; without one, the pages of the documents of the user's collections
LegacySearchStart(t) ==
    /\ task[t].pc = "idle"
    /\ \E user \in SearchUsers, cid \in {0, 1, 2, 3, 9}, k \in TopKs :
         LET T == [SearchIdle EXCEPT
                     !.op = "legacy_search", !.user = user,
                     !.payload = [NoQuery EXCEPT !.collection_id = cid,
                                                 !.raw_top_k = k,
                                                 !.top_k = SchemaTopK(k)]]
             docs == IF cid # 0
                     THEN {d \in documents : d.collection = cid}
                     ELSE {d \in documents : CollOfDoc(d).owner = user}
         IN
         task' = [task EXCEPT ![t] =
             IF cid # 0 /\ ~\E c \in collections : c.id = cid
             THEN [T EXCEPT !.pc = "done", !.status = 404]
             ELSE [T EXCEPT !.pc = "lscore", !.queried = TRUE,
                            !.cands = {p.id : p \in {r \in pages :
                                          \E d \in docs : r.document = d.id}}]]
    /\ UNCHANGED <<collections, documents, pages, embeddings, nextId, nreq>>

\* search_index: the pages are scored by the embedding service, sorted by
\* score (reverse) and cut to top_k or 3; a non-200 answer raises; no request
\* is sent when there is no page
LegacyScore(t) ==
    /\ task[t].pc = "lscore"
    /\ LET T == task[t] IN
       \E o \in {"ok", "non200", "client_error"} :
          IF o = "ok" \/ T.cands = {}
          THEN \E q \in QueryEmbeddings : \E order \in Ranked(T.cands, q) :
                 task' = [task EXCEPT ![t] =
                     [T EXCEPT !.pc = "done", !.status = 200, !.outcome = "ok",
                               !.q = q,
                               !.results = Take(order, SliceLimit(T.payload.top_k))]]
          ELSE task' = [task EXCEPT ![t] =
                   [T EXCEPT !.pc = "done", !.status = 500, !.outcome = o]]
    /\ UNCHANGED <<collections, documents, pages, embeddings, nextId, nreq>>

NextSearch ==
    \/ \E t \in Tasks : SearchStart(t)
    \/ \E t \in Tasks : SearchEmbed(t)
    \/ \E t \in Tasks : SearchRank(t)
    \/ \E t \in Tasks : FilterStart(t)
    \/ \E t \in Tasks : FilterRun(t)
    \/ \E t \in Tasks : LegacySearchStart(t)
    \/ \E t \in Tasks : LegacyScore(t)

SpecSearch == InitSearch /\ [][NextSearch]_vars

----------------------------------------------------------------------------
(* Claims about retrieval *)

Searches == {"search", "search_image"}

\* C11: search failure is not an empty result. When the query-embedding call
\* fails (a non-200 answer or a transport error) search and search_image answer
\* 503, never 200; a 200 answer with zero results occurs only when the
\* embedding call succeeded and no candidate page matched.
C11_Unavailable ==
    \A t \in Tasks :
       (task[t].op \in Searches /\ Done(t)) =>
          /\ task[t].outcome \in {"non200", "client_error"} => task[t].status = 503
          /\ task[t].status = 200 =>
                /\ task[t].outcome = "ok"
                /\ task[t].results = <<>> => task[t].cands = {}

OwnerOfPage(pageId) ==
    CollOfDoc(DocOfPage(CHOOSE p \in pages : p.id = pageId)).owner

\* C12: owner scoping of search. A search of user A, scoped to a collection
\* name, to a collection id or to all collections, returns no page of a
\* collection owned by another user.
C12_OwnerScoped ==
    \A t \in Tasks :
       (task[t].op \in Searches \cup {"legacy_search"} /\ Done(t)) =>
          \A i \in 1..Len(task[t].results) :
             OwnerOfPage(task[t].results[i]) = task[t].user

\* the limit the request asks for: top_k when supplied, 3 when absent
AskedLimit(raw) == IF raw.kind = "int" THEN raw.n ELSE 3

\* C13: top-k ranking. search returns exactly min(top_k, number of candidate
\* pages) results, in non-increasing raw-score order, no omitted candidate
\* scoring strictly higher than a returned one; the limit is 3 when top_k is
\* absent.
C13_TopK ==
    \A t \in Tasks :
       (task[t].op \in Searches /\ Done(t) /\ task[t].status = 200) =>
          LET T == task[t]
              r == T.results
          IN
          /\ Len(r) = Min(AskedLimit(T.payload.raw_top_k), Cardinality(T.cands))
          /\ \A i \in 1..Len(r) : r[i] \in T.cands
          /\ \A i, j \in 1..Len(r) : i < j => Score(r[i], T.q) >= Score(r[j], T.q)
          /\ \A i \in 1..Len(r) :
                \A c \in T.cands \ {r[j] : j \in 1..Len(r)} :
                   Score(c, T.q) <= Score(r[i], T.q)

\* the lookups as the claim reads them
Satisfies(meta, f) ==
    CASE f.lookup = "key_lookup" ->
            f.key.str \in DOMAIN meta /\ meta[f.key.str] = f.value.v
      [] f.lookup = "contains" ->
            f.key.str \in DOMAIN meta /\ meta[f.key.str] = f.value.v
      [] f.lookup = "contained_by" ->
            \A k \in DOMAIN meta : k = f.key.str /\ meta[k] = f.value.v
      [] f.lookup = "has_key" -> f.key.str \in DOMAIN meta
      [] f.lookup = "has_keys" -> \A k \in f.key.list : k \in DOMAIN meta
      [] f.lookup = "has_any_keys" -> \E k \in f.key.list : k \in DOMAIN meta

\* C14: filter correctness. filter_query, filter_documents and
\* filter_collections return exactly the entities of the caller's scope whose
\* target metadata (the document's or the collection's, by "on") satisfies the
\* lookup.
C14_FilterExact ==
    \A t \in Tasks :
       LET T == task[t]
           f == T.payload.query_filter
       IN
       (Done(t) /\ T.status = 200 /\ f.present) =>
          /\ (T.op = "filter" /\ f.on = "document") =>
                T.found = {d.id : d \in {r \in documents :
                              /\ CollOfDoc(r).owner = T.user
                              /\ Satisfies(r.metadata, f)}}
          /\ (T.op = "filter" /\ f.on = "collection") =>
                T.found = {c.id : c \in {r \in collections :
                              r.owner = T.user /\ Satisfies(r.metadata, f)}}
          /\ T.op \in Searches =>
                T.cands = {p.id : p \in {r \in pages :
                              LET d == DocOfPage(r)
                                  c == CollOfDoc(d)
                              IN
                              /\ c.owner = T.user
                              /\ T.payload.collection_name \in {"all", c.name}
                              /\ Satisfies(IF f.on = "collection" THEN c.metadata
                                           ELSE d.metadata, f)}}

\* the three accepted shapes of a QueryFilter
Accepted(f) ==
    \/ /\ f.lookup \in {"key_lookup", "contains", "contained_by"}
       /\ f.key.kind = "str" /\ f.value.given
    \/ f.lookup = "has_key" /\ f.key.kind = "str" /\ ~f.value.given
    \/ /\ f.lookup \in {"has_keys", "has_any_keys"}
       /\ f.key.kind = "list" /\ ~f.value.given

----------------------------------------------------------------------------
(* upsert_document with its two modes (awaited, or scheduled as a background
   task and acknowledged with 202), the notifications of the background mode,
   and the collection endpoints *)

\* mutant: upsert_document lets every collection name through
ReservedName_None(cn) == FALSE

\* upsert_document: payload.collection_name == "all"
ReservedName(cn) == cn = "all"

\* str.lower() on the collection names of the model
Lower(name) == IF name = "ALL" THEN "all" ELSE name

\* Collection.Meta.constraints on the row c: unique_collection_per_user and
\* collection_name_not_all; TRUE when the INSERT or UPDATE raises IntegrityError
CollRejected(c) ==
    \/ \E r \in collections : r.id # c.id /\ r.name = c.name /\ r.owner = c.owner
    \/ c.name = "all"

\* mutant: the request is answered only when the pipeline has ended
Acknowledge_Late(wait) == 0

\* upsert_document: 202 at once when the task is scheduled; with wait the
\* answer is the one process_upsert_document returns
Acknowledge(wait) == IF wait THEN 0 ELSE 202

\* upsert_document: 400 for the collection name "all"; otherwise
\* process_upsert_document is awaited (wait) or handed to asyncio.create_task
SubmitFrom(t, owners, colls, names, sources, waits, hooks) ==
    /\ task[t].pc = "idle"
    /\ nreq < MaxRequests
    /\ \E owner \in owners, cn \in colls, dn \in names, src \in sources,
          wait \in waits, webhook \in hooks :
         LET T == [IdleTask EXCEPT
                     !.op = "upsert", !.owner = owner, !.webhook = webhook,
                     !.payload = [name |-> dn, collection_name |-> cn,
                                  url |-> IF src \in FetchedSources THEN src
                                          ELSE "",
                                  base64 |-> IF src \in FetchedSources THEN ""
                                             ELSE src,
                                  wait |-> wait]]
         IN
         task' = [task EXCEPT ![t] =
             IF ReservedName(cn)
             THEN [T EXCEPT !.pc = "done", !.status = 400, !.ack = 400,
                            !.err = "all"]
             ELSE [T EXCEPT !.pc = "scheduled", !.scheduled = ~wait,
                            !.ack = Acknowledge(wait)]]
    /\ nreq' = nreq + 1
    /\ UNCHANGED <<collections, documents, pages, embeddings, nextId>>

\* process_upsert_document, first statement, outside its try block:
\* Collection.objects.aget_or_create(name=payload.collection_name, owner); an
\* IntegrityError of the INSERT leaves the task
GetOrCreate(t) ==
    /\ task[t].pc = "scheduled"
    /\ LET T == task[t]
           found == CollectionOf(T.owner, T.payload.collection_name)
           collId == IF found = {} THEN nextId.coll
                     ELSE (CHOOSE c \in found : TRUE).id
           row == [id |-> collId, owner |-> T.owner,
                   name |-> T.payload.collection_name]
       IN
       IF found = {} /\ CollRejected(row)
       THEN /\ task' = [task EXCEPT ![t] =
                   [T EXCEPT !.pc = "done", !.status = 500, !.err = "integrity"]]
            /\ UNCHANGED <<collections, nextId>>
       ELSE /\ collections' = IF found = {} THEN collections \cup {row}
                              ELSE collections
            /\ nextId' = IF found = {} THEN [nextId EXCEPT !.coll = @ + 1]
                         ELSE nextId
            /\ task' = [task EXCEPT ![t] =
                   [T EXCEPT !.pc = "exists",
                             !.doc = [NoDoc EXCEPT !.collection = collId]]]
    /\ UNCHANGED <<documents, pages, embeddings, nreq>>

\* the payloads of the requests of SpecModes
ModeSources == {"u_pdf", "b_png", "b_bin"}

\* user U has collection C with the one-page document X, ingested from a blob
InitModes ==
    /\ collections = {[id |-> 1, owner |-> "U", name |-> "C"]}
    /\ documents = {[id |-> 1, collection |-> 1, name |-> "X", url |-> "",
                     s3_file |-> "b_png"]}
    /\ pages = {[id |-> 1, document |-> 1, page_number |-> 1,
                 img |-> PrepBlob("b_png").images[1]]}
    /\ embeddings = {[page |-> 1, k |-> k, dim |-> EMBEDDING_DIM] : k \in 1..2}
    /\ nextId = [coll |-> 2, doc |-> 2, page |-> 2]
    /\ task = [t \in {1} |-> IdleTask]
    /\ nreq = 0

NextModes ==
    \/ \E t \in Tasks :
          SubmitFrom(t, {"U"}, {"C", "all"}, {"X", "Y"}, ModeSources, BOOLEAN,
                     BOOLEAN)
    \/ \E t \in Tasks : GetOrCreate(t)
    \/ \E t \in Tasks : UpsertLookup(t)
    \/ \E t \in Tasks : UpsertGet(t)
    \/ \E t \in Tasks : ClearPages(t)
    \/ \E t \in Tasks : SaveBase64(t)
    \/ \E t \in Tasks : Prep(t)
    \/ \E t \in Tasks : EmbedSave(t)
    \/ \E t \in Tasks : SendBatch(t)
    \/ \E t \in Tasks : RecvBatch(t)
    \/ \E t \in Tasks : Backoff(t)
    \/ \E t \in Tasks : Delay(t)
    \/ \E t \in Tasks : SavePage(t)
    \/ \E t \in Tasks : BulkCreate(t)
    \/ \E t \in Tasks : Cleanup(t)
    \/ \E t \in Tasks : UpsertRefetch(t)
    \/ \E t \in Tasks : UpsertExcept(t)

\* the event loop runs a scheduled task whenever it can take a step
SpecModes == InitModes /\ [][NextModes]_vars /\ WF_vars(NextModes)

----------------------------------------------------------------------------
(* The collection endpoints: create_collection and partial_update_collection *)

CollectionOwners == {"U", "V"}
CollectionNames == {"C", "D", "all", "ALL"}

\* POST /collections/: CollectionIn.validate_name (422), then
\* Collection.objects.acreate, IntegrityError answered with 409
CreateCollection(t) ==
    /\ task[t].pc \in {"idle", "done"}
    /\ nreq < MaxRequests
    /\ \E owner \in CollectionOwners, name \in CollectionNames :
         LET T == [IdleTask EXCEPT !.op = "create_collection", !.pc = "done",
                                   !.owner = owner, !.payload.name = name]
             row == [id |-> nextId.coll, owner |-> owner, name |-> name]
         IN
         IF Lower(name) = "all"
         THEN /\ task' = [task EXCEPT ![t] =
                     [T EXCEPT !.status = 422, !.err = "validation"]]
              /\ UNCHANGED <<collections, nextId>>
         ELSE IF CollRejected(row)
         THEN /\ task' = [task EXCEPT ![t] =
                     [T EXCEPT !.status = 409, !.err = "integrity"]]
              /\ UNCHANGED <<collections, nextId>>
         ELSE /\ collections' = collections \cup {row}
              /\ nextId' = [nextId EXCEPT !.coll = @ + 1]
              /\ task' = [task EXCEPT ![t] = [T EXCEPT !.status = 201, !.coll = row]]
    /\ nreq' = nreq + 1
    /\ UNCHANGED <<documents, pages, embeddings>>

\* PATCH /collections/{collection_name}/: PatchCollectionIn.validate_name
\* (422: the name "all", or neither a name nor metadata), Collection.objects.aget
\* (404), collection.name = payload.name or collection.name
PatchCollectionStart(t) ==
    /\ task[t].pc \in {"idle", "done"}
    /\ nreq < MaxRequests
    /\ \E owner \in CollectionOwners, target \in CollectionNames,
          name \in CollectionNames \cup {""}, metadata \in BOOLEAN :
         LET T == [IdleTask EXCEPT !.op = "patch_collection", !.owner = owner,
                                   !.payload.collection_name = target,
                                   !.payload.name = name]
             found == CollectionOf(owner, target)
         IN
         task' = [task EXCEPT ![t] =
             IF (name # "" /\ Lower(name) = "all") \/ (name = "" /\ ~metadata)
             THEN [T EXCEPT !.pc = "done", !.status = 422, !.err = "validation"]
             ELSE IF found = {}
             THEN [T EXCEPT !.pc = "done", !.status = 404, !.err = "not_found"]
             ELSE LET c == CHOOSE c \in found : TRUE IN
                  [T EXCEPT !.pc = "csave",
                            !.coll = [c EXCEPT !.name = IF name # "" THEN name
                                                        ELSE c.name]]]
    /\ nreq' = nreq + 1
    /\ UNCHANGED <<collections, documents, pages, embeddings, nextId>>

\* partial_update_collection: await collection.asave(), then 200; an
\* IntegrityError is not caught and leaves the view
PatchCollectionSave(t) ==
    /\ task[t].pc = "csave"
    /\ LET T == task[t] IN
       IF CollRejected(T.coll)
       THEN /\ task' = [task EXCEPT ![t] =
                   [T EXCEPT !.pc = "done", !.status = 500, !.err = "integrity"]]
            /\ UNCHANGED collections
       ELSE /\ collections' = {c \in collections : c.id # T.coll.id} \cup {T.coll}
            /\ task' = [task EXCEPT ![t] = [T EXCEPT !.pc = "done", !.status = 200]]
    /\ UNCHANGED <<documents, pages, embeddings, nextId, nreq>>

\* U has the collections C and D, V has its own C
InitCollections ==
    /\ collections = {[id |-> 1, owner |-> "U", name |-> "C"],
                      [id |-> 2, owner |-> "U", name |-> "D"],
                      [id |-> 3, owner |-> "V", name |-> "C"]}
    /\ documents = {}
    /\ pages = {}
    /\ embeddings = {}
    /\ nextId = [coll |-> 4, doc |-> 1, page |-> 1]
    /\ task = [t \in {1, 2} |-> IdleTask]
    /\ nreq = 0

\* task 1 is an upsert, task 2 the requests to the collection endpoints
NextCollections ==
    \/ \E t \in {1} :
          SubmitFrom(t, {"U"}, {"C", "all", "ALL"}, {"X"}, {"u_html"}, BOOLEAN,
                     {FALSE})
    \/ \E t \in Tasks : GetOrCreate(t)
    \/ \E t \in Tasks : UpsertLookup(t)
    \/ \E t \in Tasks : Prep(t)
    \/ \E t \in Tasks : EmbedSave(t)
    \/ \E t \in Tasks : SendBatch(t)
    \/ \E t \in Tasks : RecvBatch(t)
    \/ \E t \in Tasks : Backoff(t)
    \/ \E t \in Tasks : SavePage(t)
    \/ \E t \in Tasks : BulkCreate(t)
    \/ \E t \in Tasks : Cleanup(t)
    \/ \E t \in Tasks : UpsertRefetch(t)
    \/ \E t \in Tasks : UpsertExcept(t)
    \/ \E t \in {2} : CreateCollection(t)
    \/ \E t \in {2} : PatchCollectionStart(t)
    \/ \E t \in {2} : PatchCollectionSave(t)

SpecCollections == InitCollections /\ [][NextCollections]_vars

----------------------------------------------------------------------------
(* Two upserts of the same document in flight at once *)

\* upsert_document with wait = false, after asyncio.create_task: the task
\* process_upsert_document(request, payload) is scheduled, 202 is answered
ScheduledUpsert(owner, cn, dn, src) ==
    [IdleTask EXCEPT
       !.op = "upsert", !.pc = "scheduled", !.owner = owner,
       !.payload = [name |-> dn, collection_name |-> cn,
                    url |-> IF src \in FetchedSources THEN src ELSE "",
                    base64 |-> IF src \in FetchedSources THEN "" ELSE src,
                    wait |-> FALSE],
       !.scheduled = TRUE, !.ack = Acknowledge(FALSE)]

\* what the two requests carry: a two-page PDF or a one-page image as base64,
\* a one-page webpage by URL
ConcSources == {<<"b_pdf", "u_html">>, <<"u_html", "b_pdf">>,
                <<"b_png", "u_html">>, <<"u_html", "u_html">>}

\* U has the collection C; two upserts of document X into it have been
\* accepted and neither has taken a step
InitConc ==
    /\ collections = {[id |-> 1, owner |-> "U", name |-> "C"]}
    /\ documents = {}
    /\ pages = {}
    /\ embeddings = {}
    /\ nextId = [coll |-> 2, doc |-> 1, page |-> 1]
    /\ \E s \in ConcSources :
          task = [t \in {1, 2} |-> ScheduledUpsert("U", "C", "X", s[t])]
    /\ nreq = 2

\* the steps of the two tasks, one await at a time, in any order
NextConc ==
    \/ \E t \in Tasks : GetOrCreate(t)
    \/ \E t \in Tasks : UpsertLookup(t)
    \/ \E t \in Tasks : UpsertGet(t)
    \/ \E t \in Tasks : ClearPages(t)
    \/ \E t \in Tasks : SaveBase64(t)
    \/ \E t \in Tasks : Prep(t)
    \/ \E t \in Tasks : EmbedSave(t)
    \/ \E t \in Tasks : SendBatch(t)
    \/ \E t \in Tasks : RecvBatch(t)
    \/ \E t \in Tasks : Backoff(t)
    \/ \E t \in Tasks : SavePage(t)
    \/ \E t \in Tasks : BulkCreate(t)
    \/ \E t \in Tasks : Cleanup(t)
    \/ \E t \in Tasks : UpsertRefetch(t)
    \/ \E t \in Tasks : UpsertExcept(t)

SpecConc == InitConc /\ [][NextConc]_vars

----------------------------------------------------------------------------
(* Claims about the modes of upsert and the notifications *)

\* C16: exactly-once notification. An upsert with wait = false that has reached
\* its end, success or failure, has sent exactly one notification: by webhook
\* when the caller has one, otherwise by email (runs in which a sending call
\* itself raised are left aside).
C16_ExactlyOnce ==
    \A t \in Tasks :
       LET T == task[t] IN
       (T.op = "upsert" /\ T.scheduled /\ Done(t) /\ ~T.sendfail) =>
          /\ Len(T.notes) = 1
          /\ T.webhook => T.notes[1] \in {"upsert.success", "upsert.fail"}
          /\ ~T.webhook => T.notes[1] = "email"

\* the pipeline of an accepted upsert has not ended
Running(t) ==
    task[t].op = "upsert" /\ task[t].pc \notin {"idle", "done"}

C17_State ==
    \A t \in Tasks :
       LET T == task[t] IN
       (T.op = "upsert" /\ T.err # "all") =>
          /\ ~T.payload.wait => T.scheduled /\ T.ack = 202
          /\ T.payload.wait =>
                /\ ~T.scheduled /\ T.ack = 0
                /\ Running(t) => T.status = 0
                /\ Done(t) => T.status \in {201, 400}
          /\ Done(t) => T.status \in {201, 400, 500}
          /\ (Done(t) /\ T.status = 201) =>
                /\ \E r \in documents : r.id = T.doc.pk /\ r.name = T.payload.name
                /\ AllPagesStored(T)

C17_Step == \A t \in Tasks : Done(t) => task'[t] = task[t]

C17_Terminates == \A t \in {1} : Running(t) ~> Done(t)

\* C17: upsert modes and termination. With wait = false the request is
\* acknowledged with 202 when the task is scheduled, before the pipeline runs;
\* the scheduled ingestion always reaches one terminal state, Persisted (201,
\* the Document stored with all its pages) or Failed, and never leaves it.
\* With wait = true the answer, 201 or 400, exists only once the terminal
\* state is reached.
C17_Modes == []C17_State /\ [][C17_Step]_vars /\ C17_Terminates

C17_Witness ==
    \E t \in Tasks :
       /\ task[t].scheduled /\ task[t].ack = 202 /\ task[t].pc = "bulk"
       /\ task[t].p = 1

----------------------------------------------------------------------------
(* Claims about the names of collections *)

\* the request of a task asks for the name 'all': a create or a rename to it
\* (the validators compare the lowered name), or an upsert into it
AsksAll(T) ==
    \/ T.op = "create_collection" /\ Lower(T.payload.name) = "all"
    \/ T.op = "patch_collection" /\ T.payload.name # ""
          /\ Lower(T.payload.name) = "all"
    \/ T.op = "upsert" /\ T.payload.collection_name = "all"

C19_State ==
    /\ \A c \in collections : c.name # "all"
    /\ \A t \in Tasks :
          LET T == task[t] IN
          /\ (T.op \in {"create_collection", "patch_collection"} /\ AsksAll(T)) =>
                Done(t) /\ T.status = 422 /\ T.err = "validation"
          /\ (T.op = "upsert" /\ AsksAll(T)) =>
                Done(t) /\ T.status = 400 /\ T.ack = 400 /\ ~T.scheduled

C19_Step ==
    \A t \in Tasks :
       (task'[t] # task[t] /\ AsksAll(task'[t])) =>
          /\ collections' = collections
          /\ documents' = documents
          /\ pages' = pages

\* C19: reserved collection name. In every reachable state no Collection is
\* named 'all'; a create or a rename to 'all' has ended with the validation
\* error 422, an upsert into 'all' has ended with 400 and was never scheduled;
\* and the step of such a request leaves collections, documents and pages as
\* they were.
C19_Reserved == []C19_State /\ [][C19_Step]_vars

\* an upsert into 'all' was refused with 400 and a create or rename to 'all',
\* or to 'ALL', with 422, next to the collections that were there before
C19_Witness ==
    /\ task[1].op = "upsert" /\ AsksAll(task[1])
    /\ task[1].status = 400 /\ Done(1)
    /\ AsksAll(task[2]) /\ task[2].status = 422
    /\ Cardinality(collections) = 3

\* C20: duplicate collection names. In every reachable state (name, owner)
\* identifies at most one Collection, and a create or a rename that the
\* uniqueness of (name, owner) refused has been answered with 409.
C20_Conflict ==
    /\ \A c1, c2 \in collections :
          (c1.name = c2.name /\ c1.owner = c2.owner) => c1 = c2
    /\ \A t \in Tasks :
          LET T == task[t] IN
          (T.op \in {"create_collection", "patch_collection"}
             /\ T.err = "integrity") => T.status = 409

\* C20, the store: a create or a rename that was refused leaves every
\* collection as it was
C20_Unchanged ==
    [][\A t \in Tasks :
          (task'[t] # task[t] /\ task'[t].err = "integrity") =>
             collections' = collections]_vars

----------------------------------------------------------------------------
(* Claims about upserts in flight at once *)

\* the pages of the Document are the pages 1..N of these images, each once
PagesAre(docId, images) ==
    LET P == PagesOfDoc(docId) IN
    /\ Cardinality(P) = Len(images)
    /\ \A n \in 1..Len(images) :
          \E q \in P : q.page_number = n /\ q.img = images[n]

\* the upsert of task t has its complete page set in the store
Won(t) ==
    /\ task[t].status = 201
    /\ \E d \in DocsNamed(1, "X") : PagesAre(d.id, task[t].images)

\* C18: concurrent duplicate upserts. When two upserts of the same (owner,
\* collection, name) that were in flight together have both ended, the
\* collection has at most one Document of that name, the pages of that
\* Document are the complete page set 1..N of one of the two upserts, and an
\* upsert whose pages are not the stored ones was answered with an error.
C18_Concurrent ==
    (\A t \in Tasks : Done(t)) =>
       /\ Cardinality(DocsNamed(1, "X")) <= 1
       /\ \A d \in DocsNamed(1, "X") : \E t \in Tasks : Won(t)
       /\ \A t \in Tasks : ~Won(t) => task[t].status # 201

----------------------------------------------------------------------------
(* The document endpoints: get_document, list_documents, delete_document,
   and delete_collection, next to partial_update_document and an upsert *)

\* mutant: the rows of the Documents go, their Pages and vectors stay
DocumentsDeleted_Alone(ids) ==
    /\ documents' = {d \in documents : d.id \notin ids}
    /\ UNCHANGED <<pages, embeddings>>

\* Model.adelete() of Document rows: on_delete=CASCADE takes their Pages and
\* the PageEmbeddings of those
DocumentsDeleted(ids) ==
    /\ documents' = {d \in documents : d.id \notin ids}
    /\ pages' = {q \in pages : q.document \notin ids}
    /\ embeddings' =
          {e \in embeddings :
             \A q \in pages : q.id = e.page => q.document \notin ids}

\* annotate(num_pages=Count("pages")): what a reader is shown of a Document
DocumentOut(d) == [id |-> d.id, num_pages |-> Cardinality(PagesOfDoc(d.id))]

\* GET /documents/{document_name}/
GetDocument(t, owners, colls, names) ==
    /\ CanStart(t)
    /\ \E owner \in owners, cn \in colls, dn \in names :
         LET found == DocLookup(owner, cn, dn)
             T == [IdleTask EXCEPT !.op = "get_document", !.pc = "done",
                                   !.owner = owner,
                                   !.payload.collection_name = cn,
                                   !.document_name = dn]
         IN
         task' = [task EXCEPT ![t] =
             IF found = {} THEN [T EXCEPT !.status = 404]
             ELSE IF Ambiguous(found) THEN [T EXCEPT !.status = 409]
             ELSE [T EXCEPT !.status = 200,
                            !.seen = {DocumentOut(d) : d \in found}]]
    /\ nreq' = nreq + 1
    /\ UNCHANGED <<collections, documents, pages, embeddings, nextId>>

\* GET /documents/: the documents of one collection of the caller, or of all
ListDocuments(t, owners, colls) ==
    /\ CanStart(t)
    /\ \E owner \in owners, cn \in colls :
         LET found == {d \in documents :
                         \E c \in collections :
                            /\ c.id = d.collection
                            /\ c.owner = owner
                            /\ (cn = "all" \/ c.name = cn)}
         IN
         task' = [task EXCEPT ![t] =
             [IdleTask EXCEPT !.op = "list_documents", !.pc = "done",
                              !.owner = owner, !.payload.collection_name = cn,
                              !.status = 200,
                              !.seen = {DocumentOut(d) : d \in found}]]
    /\ nreq' = nreq + 1
    /\ UNCHANGED <<collections, documents, pages, embeddings, nextId>>

\* DELETE /documents/delete-document/{document_name}/: the lookup (404, 409)
DeleteDocumentStart(t, owners, colls, names) ==
    /\ CanStart(t)
    /\ \E owner \in owners, cn \in colls, dn \in names :
         LET found == DocLookup(owner, cn, dn)
             T == [IdleTask EXCEPT !.op = "delete_document", !.owner = owner,
                                   !.payload.collection_name = cn,
                                   !.document_name = dn]
         IN
         task' = [task EXCEPT ![t] =
             IF found = {} THEN [T EXCEPT !.pc = "done", !.status = 404]
             ELSE IF Ambiguous(found) THEN [T EXCEPT !.pc = "done", !.status = 409]
             ELSE LET r == CHOOSE r \in found : TRUE IN
                  [T EXCEPT !.pc = "ddelete",
                            !.doc = [pk |-> r.id, collection |-> r.collection,
                                     name |-> r.name, url |-> r.url,
                                     s3_file |-> r.s3_file]]]
    /\ nreq' = nreq + 1
    /\ UNCHANGED <<collections, documents, pages, embeddings, nextId>>

\* delete_document: await document.adelete(), then 204
DeleteDocumentRun(t) ==
    /\ task[t].pc = "ddelete"
    /\ DocumentsDeleted({task[t].doc.pk})
    /\ task' = [task EXCEPT ![t] = [task[t] EXCEPT !.pc = "done", !.status = 204]]
    /\ UNCHANGED <<collections, nextId, nreq>>

\* DELETE /collections/{collection_name}/: Collection.objects.aget (404)
DeleteCollectionStart(t, owners, colls) ==
    /\ CanStart(t)
    /\ \E owner \in owners, cn \in colls :
         LET found == CollectionOf(owner, cn)
             T == [IdleTask EXCEPT !.op = "delete_collection", !.owner = owner,
                                   !.payload.collection_name = cn]
         IN
         task' = [task EXCEPT ![t] =
             IF found = {} THEN [T EXCEPT !.pc = "done", !.status = 404]
             ELSE [T EXCEPT !.pc = "cdelete",
                            !.coll = CHOOSE c \in found : TRUE]]
    /\ nreq' = nreq + 1
    /\ UNCHANGED <<collections, documents, pages, embeddings, nextId>>

\* delete_collection: await collection.adelete(), then 204; on_delete=CASCADE
\* takes the Documents of the collection
DeleteCollectionRun(t) ==
    /\ task[t].pc = "cdelete"
    /\ collections' = {c \in collections : c.id # task[t].coll.id}
    /\ DocumentsDeleted({d.id : d \in {r \in documents :
                                          r.collection = task[t].coll.id}})
    /\ task' = [task EXCEPT ![t] = [task[t] EXCEPT !.pc = "done", !.status = 204]]
    /\ UNCHANGED <<nextId, nreq>>

\* the stored documents: X in U's collections C and D (from a webpage), Y in
\* U's C (from a base64 image), X in V's C; each with one page of two vectors
SeedDocs ==
    {[id |-> 1, collection |-> 1, name |-> "X", url |-> "u_html", s3_file |-> ""],
     [id |-> 2, collection |-> 2, name |-> "X", url |-> "u_html", s3_file |-> ""],
     [id |-> 3, collection |-> 1, name |-> "Y", url |-> "", s3_file |-> "b_png"],
     [id |-> 4, collection |-> 3, name |-> "X", url |-> "u_html", s3_file |-> ""]}

InitDocs ==
    /\ collections = {[id |-> 1, owner |-> "U", name |-> "C"],
                      [id |-> 2, owner |-> "U", name |-> "D"],
                      [id |-> 3, owner |-> "V", name |-> "C"]}
    /\ documents = SeedDocs
    /\ pages = {[id |-> d.id, document |-> d.id, page_number |-> 1,
                 img |-> [src |-> "seed", k |-> 1]] : d \in SeedDocs}
    /\ embeddings = {[page |-> d.id, k |-> k, dim |-> EMBEDDING_DIM]
                     : d \in SeedDocs, k \in 1..2}
    /\ nextId = [coll |-> 4, doc |-> 5, page |-> 5]
    /\ task = [t \in {1, 2} |-> IdleTask]
    /\ nreq = 0

\* the embedding service answers well-formed vectors or a non-200 status
RecvPlain(t) ==
    /\ RecvBatch(t)
    /\ task'[t].outcome \in {"ok", "non200"}
    /\ \A i \in 1..Len(task'[t].results) :
          /\ ShapeAsserted(task'[t].results[i])
          /\ \A k \in 1..Len(task'[t].results[i].v) :
                VectorAccepted(task'[t].results[i].v[k])

DocColls == {"C", "all"}

\* task 1 calls the document and collection endpoints, task 2 upserts X into
\* C; the steps of the two interleave
NextDocs ==
    \/ \E t \in {1} : GetDocument(t, {"U"}, DocColls, {"X", "Y", "Z"})
    \/ \E t \in {1} : ListDocuments(t, {"U"}, DocColls)
    \/ \E t \in {1} : DeleteDocumentStart(t, {"U"}, DocColls, {"X", "Y", "Z"})
    \/ \E t \in {1} : DeleteCollectionStart(t, {"U"}, {"C", "E"})
    \/ \E t \in {1} :
          PatchFrom(t, {"U"}, DocColls, {"X", "Y", "Z"},
                    {"", "u_html", "u_big", "b_png"}, {"", "Y"})
    \/ \E t \in {2} :
          SubmitFrom(t, {"U"}, {"C"}, {"X"}, {"b_png"}, {TRUE}, {FALSE})
    \/ \E t \in Tasks : DeleteDocumentRun(t)
    \/ \E t \in Tasks : DeleteCollectionRun(t)
    \/ \E t \in Tasks : GetOrCreate(t)
    \/ \E t \in Tasks : UpsertLookup(t)
    \/ \E t \in Tasks : UpsertGet(t)
    \/ \E t \in Tasks : ClearPages(t)
    \/ \E t \in Tasks : SaveBase64(t)
    \/ \E t \in Tasks : Prep(t)
    \/ \E t \in Tasks : EmbedSave(t)
    \/ \E t \in Tasks : SendBatch(t)
    \/ \E t \in Tasks : RecvPlain(t)
    \/ \E t \in Tasks : SavePage(t)
    \/ \E t \in Tasks : BulkCreate(t)
    \/ \E t \in Tasks : Cleanup(t)
    \/ \E t \in Tasks : UpsertRefetch(t)
    \/ \E t \in Tasks : UpsertExcept(t)
    \/ \E t \in Tasks : PatchSave(t)
    \/ \E t \in Tasks : PatchRefetch(t)

SpecDocs == InitDocs /\ [][NextDocs]_vars

----------------------------------------------------------------------------
(* Claims about the document endpoints *)

StoreUnchanged ==
    /\ collections' = collections
    /\ documents' = documents
    /\ pages' = pages
    /\ embeddings' = embeddings

C21_Step ==
    \A t \in Tasks :
       (/\ nreq' = nreq + 1
        /\ task'[t] # task[t]
        /\ task'[t].op \in {"get_document", "patch", "delete_document"}) =>
          LET T == task'[t]
              found == DocLookup(T.owner, T.payload.collection_name,
                                 T.document_name)
          IN
          /\ (T.payload.collection_name = "all" /\ Cardinality(found) > 1) =>
                T.pc = "done" /\ T.status = 409 /\ StoreUnchanged
          /\ found = {} =>
                T.pc = "done" /\ T.status = 404 /\ StoreUnchanged

\* C21: ambiguous document name. A call of get_document,
\* partial_update_document or delete_document with collection_name 'all' for
\* a name the caller has in more than one collection ends at once with 409,
\* and a call for a name the caller does not have ends at once with 404; the
\* store is the same before and after the call.
C21_Ambiguous == [][C21_Step]_vars

\* a delete of X through 'all' was refused with 409 while U has X in C and in
\* D, and every seeded document is still stored
C21_Witness ==
    /\ task[1].op = "delete_document" /\ task[1].document_name = "X"
    /\ task[1].payload.collection_name = "all"
    /\ task[1].status = 409 /\ Done(1)
    /\ Cardinality(DocLookup("U", "all", "X")) > 1
    /\ SeedDocs \subseteq documents

C22_State ==
    /\ \A d \in documents : \E c \in collections : c.id = d.collection
    /\ \A q \in pages : \E d \in documents : d.id = q.document
    /\ \A e \in embeddings : \E q \in pages : q.id = e.page

C22_Step ==
    \A t \in Tasks :
       /\ (task[t].pc = "cdelete" /\ task'[t].status = 204) =>
             LET gone == {d \in documents : d.collection = task[t].coll.id} IN
             /\ \A c \in collections' : c.id # task[t].coll.id
             /\ \A d \in documents' : d \notin gone
             /\ \A q \in pages' : \A d \in gone : q.document # d.id
             /\ \A e \in embeddings' :
                   \A q \in pages : q.id = e.page =>
                      \A d \in gone : q.document # d.id
       /\ (task[t].pc = "ddelete" /\ task'[t].status = 204) =>
             /\ \A d \in documents' : d.id # task[t].doc.pk
             /\ \A q \in pages' : q.document # task[t].doc.pk
             /\ \A e \in embeddings' :
                   \A q \in pages : q.id = e.page => q.document # task[t].doc.pk

----------------------------------------------------------------------------
(* Upserts of payloads with no page, one page and two pages *)

\* one upsert with wait = true of X (stored) or Y (new) into U's collection C
NextPages ==
    \/ \E t \in Tasks :
          SubmitFrom(t, {"U"}, {"C"}, {"X", "Y"},
                     {"b_blank", "b_png", "b_pdf"}, {TRUE}, {FALSE})
    \/ \E t \in Tasks : GetOrCreate(t)
    \/ \E t \in Tasks : UpsertLookup(t)
    \/ \E t \in Tasks : UpsertGet(t)
    \/ \E t \in Tasks : ClearPages(t)
    \/ \E t \in Tasks : SaveBase64(t)
    \/ \E t \in Tasks : Prep(t)
    \/ \E t \in Tasks : EmbedSave(t)
    \/ \E t \in Tasks : SendBatch(t)
    \/ \E t \in Tasks : RecvBatch(t)
    \/ \E t \in Tasks : Backoff(t)
    \/ \E t \in Tasks : SavePage(t)
    \/ \E t \in Tasks : BulkCreate(t)
    \/ \E t \in Tasks : Cleanup(t)
    \/ \E t \in Tasks : UpsertRefetch(t)
    \/ \E t \in Tasks : UpsertExcept(t)

SpecPages == InitModes /\ [][NextPages]_vars

\* C23: non-empty ingestion. An upsert that has ended with 201 has left its
\* Document with at least one Page, each of them with at least one vector;
\* an upsert whose normalisation gave no page image, or that was answered a
\* page with an empty list of vectors, has not ended with 201.
C23_NonEmpty ==
    \A t \in Tasks :
       LET T == task[t] IN
       (T.op = "upsert" /\ Done(t)) =>
          /\ T.status = 201 =>
                /\ \E d \in documents : d.id = T.doc.pk
                /\ PagesOfDoc(T.doc.pk) # {}
                /\ \A q \in PagesOfDoc(T.doc.pk) : EmbeddingsOfPage(q.id) # {}
          /\ (T.resolved # "" /\ T.err = "" /\ Len(T.images) = 0) =>
                T.status # 201
          /\ (\E i \in 1..Len(T.results) :
                 T.results[i].list /\ Len(T.results[i].v) = 0) =>
                T.status # 201

----------------------------------------------------------------------------
(* Two upserts of different names whose sources may hold the same bytes *)

\* U has the collection C; the upserts of X and of Y have been accepted
InitTypes ==
    /\ collections = {[id |-> 1, owner |-> "U", name |-> "C"]}
    /\ documents = {}
    /\ pages = {}
    /\ embeddings = {}
    /\ nextId = [coll |-> 2, doc |-> 1, page |-> 1]
    /\ \E s1 \in {"u_png", "u_png_pdf", "b_png", "b_pdf"},
          s2 \in {"u_png", "u_png_pdf", "b_png", "b_pdf"} :
          task = [t \in {1, 2} |->
                    IF t = 1 THEN ScheduledUpsert("U", "C", "X", s1)
                    ELSE ScheduledUpsert("U", "C", "Y", s2)]
    /\ nreq = 2

NextTypes ==
    \/ \E t \in Tasks : GetOrCreate(t)
    \/ \E t \in Tasks : UpsertLookup(t)
    \/ \E t \in Tasks : SaveBase64(t)
    \/ \E t \in Tasks : Prep(t)
    \/ \E t \in Tasks : EmbedSave(t)
    \/ \E t \in Tasks : SendBatch(t)
    \/ \E t \in Tasks : RecvPlain(t)
    \/ \E t \in Tasks : SavePage(t)
    \/ \E t \in Tasks : BulkCreate(t)
    \/ \E t \in Tasks : Cleanup(t)
    \/ \E t \in Tasks : UpsertRefetch(t)
    \/ \E t \in Tasks : UpsertExcept(t)

SpecTypes == InitTypes /\ [][NextTypes]_vars

\* the content of a source: what libmagic sniffs in its bytes, their size, and
\* what pdf2image makes of them
Bytes(s) ==
    [mime |-> Source(s).mime, size |-> Source(s).size,
     raster |-> Source(s).raster, npages |-> Source(s).npages]

\* _prep_document, step 2: the branch the extension selects
Branch(extension) ==
    IF extension \in IMAGE_EXTENSIONS THEN "image"
    ELSE IF extension = "pdf" THEN "pdf" ELSE "convert"

\* C24: type detection by content. Two ingestions whose sources hold the same
\* bytes resolve to the same extension, take the same branch of the
\* normalisation and get the same number of page images, whatever file name,
\* URL path or Content-Type header the sources declare.
C24_ByContent ==
    \A t1, t2 \in Tasks :
       LET s1 == task[t1].resolved
           s2 == task[t2].resolved
       IN
       (s1 # "" /\ s2 # "" /\ Bytes(s1) = Bytes(s2)) =>
          /\ ResolvedExtension(s1) = ResolvedExtension(s2)
          /\ Branch(ResolvedExtension(s1)) = Branch(ResolvedExtension(s2))
          /\ Len(task[t1].images) = Len(task[t2].images)

----------------------------------------------------------------------------
(* Scoring: searches over stores whose pages 1 and 2 hold any small vector set *)

Vecs == {<<a, b>> : a \in 0..MaxCoord, b \in 0..MaxCoord}

VecSets == {W \in SUBSET Vecs : Cardinality(W) \in 1..MaxVecs}

\* the PageEmbedding rows of page p for the vectors W, numbered in some order
RowsOf(p, W) ==
    LET RECURSIVE Rows(_, _)
        Rows(S, k) ==
           IF S = {} THEN {}
           ELSE LET v == CHOOSE v \in S : TRUE IN
                {[page |-> p, k |-> k, dim |-> EMBEDDING_DIM, vec |-> v]}
                \cup Rows(S \ {v}, k + 1)
    IN Rows(W, 1)

\* the seeded store, with any vector sets on the pages of A's collection C
InitScore ==
    /\ collections = SeedCollections
    /\ documents = SeedDocuments(NoMeta)
    /\ pages = SeedPages
    /\ \E W1 \in VecSets, W2 \in VecSets :
          embeddings = {e \in SeedEmbeddings : e.page \notin {1, 2}}
                       \cup RowsOf(1, W1) \cup RowsOf(2, W2)
    /\ nextId = [coll |-> 4, doc |-> 6, page |-> 6]
    /\ task = [t \in {1} |-> SearchIdle]
    /\ nreq = 0

\* POST /search/ by A on collection C, without filter and without top_k
SearchPlain(t) ==
    /\ SearchStart(t)
    /\ task'[t].op = "search" /\ task'[t].user = "A"
    /\ task'[t].payload.collection_name = "C"
    /\ task'[t].payload.raw_top_k.kind = "absent"
    /\ ~task'[t].payload.query_filter.present

NextScore ==
    \/ \E t \in Tasks : SearchPlain(t)
    \/ \E t \in Tasks : SearchEmbed(t)
    \/ \E t \in Tasks : SearchRank(t)

SpecScore == InitScore /\ [][NextScore]_vars

RECURSIVE SumDots(_, _)
SumDots(q, pick) ==
    IF q = <<>> THEN 0
    ELSE Dot(Head(q), Head(pick)) + SumDots(Tail(q), Tail(pick))

\* x is the sum, over the query vectors, of the largest similarity to a vector
\* of W: some choice of one vector of W per query vector gives x and no vector
\* of W is more similar to a query vector than the chosen one
SumOfMaxima(x, W, q) ==
    \E pick \in [1..Len(q) -> W] :
       /\ x = SumDots(q, pick)
       /\ \A i \in 1..Len(q) : \A d \in W : Dot(q[i], d) <= Dot(q[i], pick[i])

\* W2 is W1 with one vector made more similar to one query vector and as
\* similar as before to every other query vector
RaisedFrom(W1, W2, q) ==
    \E d \in W1, e \in Vecs, i \in 1..Len(q) :
       /\ W2 = (W1 \ {d}) \cup {e}
       /\ Dot(q[i], e) > Dot(q[i], d)
       /\ \A j \in 1..Len(q) : j # i => Dot(q[j], e) = Dot(q[j], d)

\* C25: MaxSim monotonicity. The raw score of every page a search returns is
\* the sum, over the query vectors, of the largest similarity of that query
\* vector to a vector of the page; and of two returned pages, one whose
\* vectors are the other's with one similarity raised and everything else
\* equal has a score that is not lower.
C25_MaxSim ==
    \A t \in Tasks :
       LET T == task[t] IN
       (T.pc = "done" /\ T.status = 200) =>
          /\ \A i \in 1..Len(T.results) :
                SumOfMaxima(T.scores[i], VectorsOfPage(T.results[i]), T.q)
          /\ \A i, j \in 1..Len(T.results) :
                RaisedFrom(VectorsOfPage(T.results[i]),
                           VectorsOfPage(T.results[j]), T.q)
                => T.scores[j] >= T.scores[i]

\* a search returned two pages, the second's vectors being the first's with
\* one similarity raised, and the raised one scored strictly higher
C25_Witness ==
    \E t \in Tasks :
       /\ task[t].pc = "done" /\ task[t].status = 200
       /\ Len(task[t].q) = 2
       /\ \E i, j \in 1..Len(task[t].results) :
             /\ RaisedFrom(VectorsOfPage(task[t].results[i]),
                           VectorsOfPage(task[t].results[j]), task[t].q)
             /\ Cardinality(VectorsOfPage(task[t].results[i])) = 2
             /\ task[t].scores[j] > task[t].scores[i]

----------------------------------------------------------------------------
(* Claims about the update of a stored document *)

\* task u is at work on the stored Document of id d: an upsert of its name or
\* a PATCH of it that has found it and has not ended
Updating(u, d) ==
    /\ task[u].op \in {"upsert", "patch"}
    /\ task[u].existed
    /\ task[u].doc.pk = d
    /\ task[u].pc \notin {"idle", "done"}

C26_Step ==
    \A t \in Tasks :
       (/\ nreq' = nreq + 1
        /\ task'[t] # task[t]
        /\ task'[t].op \in {"get_document", "list_documents"}) =>
          \A s \in task'[t].seen :
             (\E u \in Tasks \ {t} : Updating(u, s.id)) => s.num_pages > 0

\* C26: re-embedding is invisible to readers. A get_document or
\* list_documents that answers while another request is re-embedding a stored
\* Document (old pages deleted, new pages not yet created) does not show that
\* Document with zero pages.
C26_Invisible == [][C26_Step]_vars

\* the PATCH of task t has chosen its branch in this step, for the one
\* Document r its lookup matched
C27_Branch(t, r) ==
    LET T == task'[t]
        P == T.payload
        reembeds == P.base64 # "" \/ (P.url # "" /\ P.url # r.url)
    IN
    /\ StoreUnchanged
    /\ reembeds <=> T.pc \in {"clear", "s3"}
    /\ ~reembeds <=> T.pc = "asave"
    /\ ~reembeds =>
          T.doc = [pk |-> r.id, collection |-> r.collection,
                   name |-> IF P.name # "" THEN P.name ELSE r.name,
                   url |-> r.url, s3_file |-> r.s3_file]

C27_Step ==
    \A t \in Tasks :
       /\ (/\ nreq' = nreq + 1
           /\ task'[t] # task[t]
           /\ task'[t].op = "patch") =>
             LET found == DocLookup(task'[t].owner,
                                    task'[t].payload.collection_name,
                                    task'[t].document_name)
             IN
             Cardinality(found) = 1 =>
                C27_Branch(t, CHOOSE r \in found : TRUE)
       /\ (/\ task[t].op = "patch"
           /\ task[t].pc \in {"asave", "refetch"}
           /\ task'[t] # task[t]) =>
             /\ pages' = pages
             /\ embeddings' = embeddings
             /\ collections' = collections
             /\ \A d \in documents' :
                   d \in documents \/ d = DocRow(task[t].doc)
             /\ task[t].pc = "asave" => task'[t].pc \in {"refetch", "done"}
             /\ task[t].pc = "refetch" => task'[t].pc = "done"

\* C27: PATCH without a source change is metadata-only. partial_update_document
\* takes the re-embedding branch exactly when the payload has a base64 or a
\* URL other than the stored one; otherwise its only write is the save of the
\* Document row as it was loaded, with the new name, and no step of it
\* touches a Page, a vector or a Collection.
C27_MetadataOnly == [][C27_Step]_vars

\* a PATCH of X in C that named the stored URL, with no other request made:
\* it ended with 200 and the stored page of X and its two vectors are in place
C27_Witness ==
    /\ task[1].op = "patch" /\ Done(1) /\ task[1].status = 200
    /\ task[1].payload.url = "u_html" /\ task[1].payload.base64 = ""
    /\ task[1].doc.pk = 1 /\ task[1].doc.url = "u_html"
    /\ task[2].op = "idle"
    /\ PagesOfDoc(1) = {[id |-> 1, document |-> 1, page_number |-> 1,
                         img |-> [src |-> "seed", k |-> 1]]}
    /\ Cardinality(EmbeddingsOfPage(1)) = 2

----------------------------------------------------------------------------
(* Claims about the outcome of an upsert and what it leaves in the store *)

\* the elements of a sequence
Range(s) == {s[i] : i \in 1..Len(s)}

\* C28: reported outcome matches the store. An upsert that process_upsert_document
\* has ended with a failure (400, the upsert.fail webhook or the failure
\* email) has left no Document of its name in the collection, and one it has
\* ended with a success (201, the upsert.success webhook) has left the
\* Document with all its pages, whatever step raised the failure.
C28_Outcome ==
    \A t \in Tasks :
       LET T == task[t] IN
       (T.op = "upsert" /\ Done(t) /\ T.doc.collection # 0) =>
          /\ (T.status = 400 \/ Range(T.notes) \cap {"upsert.fail", "email"} # {})
                => DocsNamed(T.doc.collection, T.payload.name) = {}
          /\ (T.status = 201 \/ "upsert.success" \in Range(T.notes))
                => /\ \E r \in documents : r.id = T.doc.pk
                   /\ AllPagesStored(T)

\* the upsert of task t found its Document stored, cleared its old pages and
\* then ended without success
FailedUpdate(t) ==
    /\ task[t].op = "upsert" /\ task[t].existed
    /\ Done(t) /\ task[t].status # 201
    /\ task[t].err # "not_found"

\* C29: a failed update does not keep the previous version. After an upsert
\* of a stored Document that failed once its old pages were cleared (at the
\* blob save, the normalisation, an embedding call or while persisting), every
\* Page left of a Document of that name was written by the failed upsert
\* itself, and so was the page of every vector left: nothing of the Pages and
\* vectors stored before is there.
C29_NotRestored ==
    \A t \in Tasks :
       FailedUpdate(t) =>
          LET named == DocsNamed(task[t].doc.collection, task[t].payload.name)
          IN
          /\ \A d \in named :
                \A q \in PagesOfDoc(d.id) : q.id \in task[t].wrote
          /\ \A e \in embeddings :
                \/ e.page \in task[t].wrote
                \/ \E q \in pages :
                      /\ q.id = e.page
                      /\ \A d \in named : q.document # d.id

\* the update of X failed at the normalisation of a payload of no allowed
\* type: X is still stored, the page and the vectors it had are gone
C29_Witness ==
    \E t \in Tasks :
       /\ FailedUpdate(t)
       /\ task[t].err = "extension"
       /\ DocsNamed(task[t].doc.collection, "X") # {}
       /\ pages = {}
       /\ embeddings = {}

----------------------------------------------------------------------------
(* An upsert into a collection its owner does not have yet *)

\* stored before the upsert: U's collection C with the one-page document X,
\* and V's collection E with the one-page document Y
FreshCollections ==
    {[id |-> 1, owner |-> "U", name |-> "C"],
     [id |-> 2, owner |-> "V", name |-> "E"]}

FreshDocuments ==
    {[id |-> 1, collection |-> 1, name |-> "X", url |-> "", s3_file |-> "b_png"],
     [id |-> 2, collection |-> 2, name |-> "Y", url |-> "", s3_file |-> "b_png"]}

FreshPages ==
    {[id |-> d.id, document |-> d.id, page_number |-> 1,
      img |-> PrepBlob("b_png").images[1]] : d \in FreshDocuments}

FreshEmbeddings ==
    {[page |-> q.id, k |-> k, dim |-> EMBEDDING_DIM] : q \in FreshPages, k \in 1..2}

InitFresh ==
    /\ collections = FreshCollections
    /\ documents = FreshDocuments
    /\ pages = FreshPages
    /\ embeddings = FreshEmbeddings
    /\ nextId = [coll |-> 3, doc |-> 3, page |-> 3]
    /\ task = [t \in {1} |-> IdleTask]
    /\ nreq = 0

\* one upsert by U of X or Y into E, a collection name U does not have
NextFresh ==
    \/ \E t \in Tasks :
          SubmitFrom(t, {"U"}, {"E"}, {"X", "Y"},
                     {"b_bin", "b_png", "u_html"}, BOOLEAN, BOOLEAN)
    \/ \E t \in Tasks : GetOrCreate(t)
    \/ \E t \in Tasks : UpsertLookup(t)
    \/ \E t \in Tasks : SaveBase64(t)
    \/ \E t \in Tasks : Prep(t)
    \/ \E t \in Tasks : EmbedSave(t)
    \/ \E t \in Tasks : SendBatch(t)
    \/ \E t \in Tasks : RecvBatch(t)
    \/ \E t \in Tasks : Backoff(t)
    \/ \E t \in Tasks : SavePage(t)
    \/ \E t \in Tasks : BulkCreate(t)
    \/ \E t \in Tasks : Cleanup(t)
    \/ \E t \in Tasks : UpsertRefetch(t)
    \/ \E t \in Tasks : UpsertExcept(t)

SpecFresh == InitFresh /\ [][NextFresh]_vars

\* the upsert of task t resolved its collection and ended with 400
FailedUpsert(t) ==
    /\ task[t].op = "upsert" /\ Done(t) /\ task[t].status = 400
    /\ task[t].doc.collection # 0

\* everything but collection c and its contents is as it was stored before
RestAsBefore(c) ==
    /\ {r \in collections : r.id # c} = FreshCollections
    /\ {d \in documents : d.collection # c} = FreshDocuments
    /\ {q \in pages : \E d \in FreshDocuments : d.id = q.document} = FreshPages
    /\ {e \in embeddings : \E q \in FreshPages : q.id = e.page}
          = FreshEmbeddings

\* C30: auto-created collections are not rolled back. After a failed upsert
\* into a collection name its owner did not have, the Collection of that
\* name exists for the owner and holds no Document, and every other
\* Collection and Document, with its Pages and vectors, is as it was.
C30_NotRolledBack ==
    \A t \in Tasks :
       FailedUpsert(t) =>
          LET c == task[t].doc.collection IN
          /\ {r \in collections : r.id = c} =
                {[id |-> c, owner |-> task[t].owner,
                  name |-> task[t].payload.collection_name]}
          /\ {d \in documents : d.collection = c} = {}
          /\ RestAsBefore(c)

====
